---- MODULE Spec2Model ----
(***************************************************************************)
(* Azoteq IQS269A capacitive touch controller driver                       *)
(* (drivers/input/misc/iqs269a.c): the register image kept in              *)
(* struct iqs269_private, the attribute accessors that mutate it, the      *)
(* full-image rewrite iqs269_dev_init, the decode of one status snapshot   *)
(* by the threaded interrupt handler, and the ati_done completion that     *)
(* gates probe and recalibration.                                          *)
(***************************************************************************)
EXTENDS Integers, Sequences, FiniteSets, TLC

VARIABLES
    iqs269,     \* struct iqs269_private: sys_reg, code tables, flags, lock, ati_done
    dev,        \* the device behind the bus: what the driver has written to it
    irq,        \* the interrupt line: requested, disable depth
    input,      \* input devices registered with the input core
    pc,         \* per thread: position in the operation it is running
    op,         \* per thread: the operation and its arguments
    res,        \* per thread: the value the finished operation returns
    flags,      \* handler local: the status snapshot read in this cycle
    events,     \* handler local: input_report_*/input_sync calls of this cycle
    writes,     \* per thread: full-image writes issued by the running operation
    hist,       \* history of the session and its bound: read by the properties
                \* and by the guard that ends the session
    suspended   \* between iqs269_suspend and iqs269_resume

vars == <<iqs269, dev, irq, input, pc, op, res, flags, events, writes, hist,
          suspended>>

----------------------------------------------------------------------------
(* Register and bit definitions, iqs269a.c lines 28-166 *)

IQS269_VER_INFO_FW_NUM_2 == 3
IQS269_VER_INFO_FW_NUM_3 == 16

IQS269_SYS_FLAGS_SHOW_RESET == 32768
IQS269_SYS_FLAGS_IN_ATI == 1024

IQS269_SYS_SETTINGS_CLK_DIV == 32768
IQS269_SYS_SETTINGS_ULP_AUTO == 16384
IQS269_SYS_SETTINGS_DIS_AUTO == 8192
IQS269_SYS_SETTINGS_PWR_MODE_MASK == 6144
IQS269_SYS_SETTINGS_PWR_MODE_SHIFT == 11
IQS269_SYS_SETTINGS_PWR_MODE_MAX == 3
IQS269_SYS_SETTINGS_ULP_UPDATE_MASK == 1792
IQS269_SYS_SETTINGS_ULP_UPDATE_SHIFT == 8
IQS269_SYS_SETTINGS_ULP_UPDATE_MAX == 7
IQS269_SYS_SETTINGS_SLIDER_SWIPE == 128
IQS269_SYS_SETTINGS_RESEED_OFFSET == 64
IQS269_SYS_SETTINGS_EVENT_MODE == 32
IQS269_SYS_SETTINGS_EVENT_MODE_LP == 16
IQS269_SYS_SETTINGS_REDO_ATI == 4
IQS269_SYS_SETTINGS_ACK_RESET == 1

IQS269_FILT_STR_LP_LTA_MASK == 192
IQS269_FILT_STR_LP_LTA_SHIFT == 6
IQS269_FILT_STR_LP_CNT_MASK == 48
IQS269_FILT_STR_LP_CNT_SHIFT == 4
IQS269_FILT_STR_NP_LTA_MASK == 12
IQS269_FILT_STR_NP_LTA_SHIFT == 2
IQS269_FILT_STR_NP_CNT_MASK == 3
IQS269_FILT_STR_MAX == 3

IQS269_EVENT_MASK_SYS == 64
IQS269_EVENT_MASK_GESTURE == 8
IQS269_EVENT_MASK_DEEP == 4
IQS269_EVENT_MASK_TOUCH == 2
IQS269_EVENT_MASK_PROX == 1

IQS269_RATE_NP_MS_MAX == 255
IQS269_RATE_LP_MS_MAX == 255
IQS269_RATE_ULP_MS_MAX == 4080
IQS269_TIMEOUT_PWR_MS_MAX == 130560
IQS269_TIMEOUT_LTA_MS_MAX == 130560

IQS269_MISC_A_ATI_BAND_DISABLE == 32768
IQS269_MISC_A_ATI_LP_ONLY == 16384
IQS269_MISC_A_ATI_BAND_TIGHTEN == 8192
IQS269_MISC_A_FILT_DISABLE == 4096
IQS269_MISC_A_GPIO3_SELECT_MASK == 1792
IQS269_MISC_A_GPIO3_SELECT_SHIFT == 8
IQS269_MISC_A_DUAL_DIR == 64
IQS269_MISC_A_TX_FREQ_MASK == 48
IQS269_MISC_A_TX_FREQ_SHIFT == 4
IQS269_MISC_A_TX_FREQ_MAX == 3
IQS269_MISC_A_GLOBAL_CAP_SIZE == 1
IQS269_MISC_B_RESEED_UI_SEL_MASK == 192
IQS269_MISC_B_RESEED_UI_SEL_SHIFT == 6
IQS269_MISC_B_RESEED_UI_SEL_MAX == 3
IQS269_MISC_B_TRACKING_UI_ENABLE == 16
IQS269_MISC_B_FILT_STR_SLIDER == 3

IQS269_TOUCH_HOLD_DEFAULT == 20
IQS269_TOUCH_HOLD_MS_MIN == 256
IQS269_TOUCH_HOLD_MS_MAX == 65280

IQS269_TIMEOUT_TAP_MS_MAX == 4080
IQS269_TIMEOUT_SWIPE_MS_MAX == 4080
IQS269_THRESH_SWIPE_MAX == 255

IQS269_CHx_ENG_A_MEAS_CAP_SIZE == 32768
IQS269_CHx_ENG_A_RX_GND_INACTIVE == 8192
IQS269_CHx_ENG_A_LOCAL_CAP_SIZE == 4096
IQS269_CHx_ENG_A_ATI_MODE_MASK == 768
IQS269_CHx_ENG_A_ATI_MODE_SHIFT == 8
IQS269_CHx_ENG_A_ATI_MODE_MAX == 3
IQS269_CHx_ENG_A_INV_LOGIC == 128
IQS269_CHx_ENG_A_PROJ_BIAS_MASK == 96
IQS269_CHx_ENG_A_PROJ_BIAS_SHIFT == 5
IQS269_CHx_ENG_A_PROJ_BIAS_MAX == 3
IQS269_CHx_ENG_A_SENSE_MODE_MASK == 15
IQS269_CHx_ENG_A_SENSE_MODE_MAX == 15

IQS269_CHx_ENG_B_LOCAL_CAP_ENABLE == 8192
IQS269_CHx_ENG_B_SENSE_FREQ_MASK == 1536
IQS269_CHx_ENG_B_SENSE_FREQ_SHIFT == 9
IQS269_CHx_ENG_B_SENSE_FREQ_MAX == 3
IQS269_CHx_ENG_B_STATIC_ENABLE == 256
IQS269_CHx_ENG_B_ATI_BASE_MASK == 192
IQS269_CHx_ENG_B_ATI_BASE_75 == 0
IQS269_CHx_ENG_B_ATI_BASE_100 == 64
IQS269_CHx_ENG_B_ATI_BASE_150 == 128
IQS269_CHx_ENG_B_ATI_BASE_200 == 192
IQS269_CHx_ENG_B_ATI_TARGET_MASK == 63
IQS269_CHx_ENG_B_ATI_TARGET_MAX == 2016

IQS269_CHx_WEIGHT_MAX == 255
IQS269_CHx_THRESH_MAX == 255
IQS269_CHx_HYST_DEEP_MASK == 240
IQS269_CHx_HYST_DEEP_SHIFT == 4
IQS269_CHx_HYST_TOUCH_MASK == 15
IQS269_CHx_HYST_MAX == 15

IQS269_CHx_HALL_INACTIVE == 6
IQS269_CHx_HALL_ACTIVE == 7

IQS269_HALL_PAD_R == 1
IQS269_HALL_PAD_L == 2

IQS269_OTP_OPTION_DEFAULT == 0
IQS269_OTP_OPTION_TWS == 208
IQS269_OTP_OPTION_HOLD == 128

IQS269_NUM_CH == 8
IQS269_NUM_SL == 2

(* enum iqs269_st_offs, iqs269_th_offs, iqs269_event_id, iqs269_gesture_id *)
IQS269_ST_OFFS_PROX == 0
IQS269_ST_OFFS_DIR == 1
IQS269_ST_OFFS_TOUCH == 2
IQS269_ST_OFFS_DEEP == 3
IQS269_TH_OFFS_PROX == 0
IQS269_TH_OFFS_TOUCH == 1
IQS269_TH_OFFS_DEEP == 2
IQS269_EVENT_PROX_DN == 0
IQS269_EVENT_PROX_UP == 1
IQS269_EVENT_TOUCH_DN == 2
IQS269_EVENT_TOUCH_UP == 3
IQS269_EVENT_DEEP_DN == 4
IQS269_EVENT_DEEP_UP == 5
IQS269_GESTURE_TAP == 0
IQS269_GESTURE_HOLD == 1
IQS269_GESTURE_FLICK_POS == 2
IQS269_GESTURE_FLICK_NEG == 3
IQS269_NUM_GESTURES == 4
IQS269_LOCAL_CAP_SIZE_0 == 0
IQS269_LOCAL_CAP_SIZE_GLOBAL_ONLY == 1
IQS269_LOCAL_CAP_SIZE_GLOBAL_0pF5 == 2
IQS269_SLIDER_NONE == 0
IQS269_SLIDER_KEY == 1
IQS269_SLIDER_RAW == 2

(* input core codes used by the driver *)
KEY_RESERVED == 0
BTN_TOUCH == 330
ABS_X == 0

(* Number of entries of iqs269_events[] (ARRAY_SIZE) *)
NUM_EVENTS == 6

----------------------------------------------------------------------------
(* Bit arithmetic on unsigned register words *)

RECURSIVE BitAnd(_, _)
BitAnd(a, b) ==
    IF a = 0 \/ b = 0 THEN 0
    ELSE (a % 2) * (b % 2) + 2 * BitAnd(a \div 2, b \div 2)

BitOr(a, b) == a + b - BitAnd(a, b)

BitClear(a, m) == a - BitAnd(a, m)

BIT(n) == 2 ^ n

TestBit(x, n) == (x \div (2 ^ n)) % 2 = 1

\* ~x on a u8
Not8(x) == 255 - x

\* the input core stores !!value for EV_KEY and EV_SW
Bool01(x) == IF x # 0 THEN 1 ELSE 0

----------------------------------------------------------------------------
(* The fixed event table iqs269_events[] *)

iqs269_events ==
    [i \in 0 .. NUM_EVENTS - 1 |->
        CASE i = IQS269_EVENT_PROX_DN ->
               [st_offs |-> IQS269_ST_OFFS_PROX, th_offs |-> IQS269_TH_OFFS_PROX,
                dir_up |-> FALSE, mask |-> IQS269_EVENT_MASK_PROX]
          [] i = IQS269_EVENT_PROX_UP ->
               [st_offs |-> IQS269_ST_OFFS_PROX, th_offs |-> IQS269_TH_OFFS_PROX,
                dir_up |-> TRUE, mask |-> IQS269_EVENT_MASK_PROX]
          [] i = IQS269_EVENT_TOUCH_DN ->
               [st_offs |-> IQS269_ST_OFFS_TOUCH, th_offs |-> IQS269_TH_OFFS_TOUCH,
                dir_up |-> FALSE, mask |-> IQS269_EVENT_MASK_TOUCH]
          [] i = IQS269_EVENT_TOUCH_UP ->
               [st_offs |-> IQS269_ST_OFFS_TOUCH, th_offs |-> IQS269_TH_OFFS_TOUCH,
                dir_up |-> TRUE, mask |-> IQS269_EVENT_MASK_TOUCH]
          [] i = IQS269_EVENT_DEEP_DN ->
               [st_offs |-> IQS269_ST_OFFS_DEEP, th_offs |-> IQS269_TH_OFFS_DEEP,
                dir_up |-> FALSE, mask |-> IQS269_EVENT_MASK_DEEP]
          [] OTHER ->
               [st_offs |-> IQS269_ST_OFFS_DEEP, th_offs |-> IQS269_TH_OFFS_DEEP,
                dir_up |-> TRUE, mask |-> IQS269_EVENT_MASK_DEEP]]

----------------------------------------------------------------------------
(* struct iqs269_ch_reg, struct iqs269_sys_reg, struct iqs269_private.      *)
(* Multi-byte fields hold their numeric value (be16_to_cpu/cpu_to_be16     *)
(* cancel on every access the driver makes).                               *)

Channels == 0 .. IQS269_NUM_CH - 1

ZeroChReg ==
    [rx_enable |-> 0, tx_enable |-> 0, engine_a |-> 0, engine_b |-> 0,
     ati_comp |-> 0, thresh |-> [k \in 0 .. 2 |-> 0], hyst |-> 0,
     assoc_select |-> 0, assoc_weight |-> 0]

ZeroSysReg ==
    [general |-> 0, active |-> 0, filter |-> 0, reseed |-> 0, event_mask |-> 0,
     rate_np |-> 0, rate_lp |-> 0, rate_ulp |-> 0, timeout_pwr |-> 0,
     timeout_rdy |-> 0, timeout_lta |-> 0, misc_a |-> 0, misc_b |-> 0,
     blocking |-> 0, padding |-> 0, slider_select |-> [n \in 0 .. 1 |-> 0],
     timeout_tap |-> 0, timeout_swipe |-> 0, thresh_swipe |-> 0,
     redo_ati |-> 0, ch_reg |-> [c \in Channels |-> ZeroChReg]]

\* devm_kzalloc, mutex_init, init_completion (iqs269_probe)
ZeroPrivate ==
    [lock |-> "free",
     switches |-> [i \in 0 .. NUM_EVENTS - 1 |-> [code |-> 0, enabled |-> FALSE]],
     fw_num |-> 0,
     sys_reg |-> ZeroSysReg,
     ati_done |-> FALSE,
     keycode |-> [k \in 0 .. NUM_EVENTS * IQS269_NUM_CH - 1 |-> KEY_RESERVED],
     sl_code |-> [n \in 0 .. IQS269_NUM_SL - 1 |->
                    [g \in 0 .. IQS269_NUM_GESTURES - 1 |-> KEY_RESERVED]],
     otp_option |-> 0,
     ch_num |-> 0,
     hall_enable |-> FALSE,
     ati_current |-> FALSE]

SetSys(s, f, v) == [s EXCEPT !.sys_reg = [@ EXCEPT ![f] = v]]

SetCh(s, c, f, v) ==
    [s EXCEPT !.sys_reg = [@ EXCEPT !.ch_reg = [@ EXCEPT ![c] = [@ EXCEPT ![f] = v]]]]

----------------------------------------------------------------------------
(* iqs269_slider_type *)

RECURSIVE AnyGestureCode(_, _, _)
AnyGestureCode(s, slider_num, i) ==
    IF i >= IQS269_NUM_GESTURES THEN FALSE
    ELSE IF s.sl_code[slider_num][i] # KEY_RESERVED THEN TRUE
    ELSE AnyGestureCode(s, slider_num, i + 1)

iqs269_slider_type(s, slider_num) ==
    IF slider_num # 0 /\ BitAnd(s.otp_option, IQS269_OTP_OPTION_HOLD) # 0
    THEN IQS269_SLIDER_NONE
    ELSE IF s.sys_reg.slider_select[slider_num] = 0 THEN IQS269_SLIDER_NONE
    ELSE IF AnyGestureCode(s, slider_num, 0) THEN IQS269_SLIDER_KEY
    ELSE IQS269_SLIDER_RAW

AnySliderRaw(s) ==
    \/ iqs269_slider_type(s, 0) = IQS269_SLIDER_RAW
    \/ iqs269_slider_type(s, 1) = IQS269_SLIDER_RAW

----------------------------------------------------------------------------
(* ATI accessors.  Each setter is split into the validation done before    *)
(* the lock is taken (..._check, the error it returns) and the body run    *)
(* under guard(mutex) (..._locked).  The getters return [err, val].        *)

iqs269_ati_mode_check(ch_num, mode) ==
    IF ch_num >= IQS269_NUM_CH THEN "EINVAL"
    ELSE IF mode > IQS269_CHx_ENG_A_ATI_MODE_MAX THEN "EINVAL"
    ELSE "OK"

iqs269_ati_mode_locked(s, ch_num, mode) ==
    LET engine_a == s.sys_reg.ch_reg[ch_num].engine_a
        cleared  == BitClear(engine_a, IQS269_CHx_ENG_A_ATI_MODE_MASK)
        merged   == BitOr(cleared, mode * BIT(IQS269_CHx_ENG_A_ATI_MODE_SHIFT))
    IN  [SetCh(s, ch_num, "engine_a", merged) EXCEPT !.ati_current = FALSE]

iqs269_ati_mode_get(s, ch_num) ==
    IF ch_num >= IQS269_NUM_CH THEN [err |-> "EINVAL", val |-> 0]
    ELSE [err |-> "OK",
          val |-> BitAnd(s.sys_reg.ch_reg[ch_num].engine_a,
                         IQS269_CHx_ENG_A_ATI_MODE_MASK)
                    \div BIT(IQS269_CHx_ENG_A_ATI_MODE_SHIFT)]

\* Faulty variant of AtiBaseBits: the encodings of 100 and 150 exchanged
AtiBaseBitsSwapped(base) ==
    CASE base = 75 -> IQS269_CHx_ENG_B_ATI_BASE_75
      [] base = 100 -> IQS269_CHx_ENG_B_ATI_BASE_150
      [] base = 150 -> IQS269_CHx_ENG_B_ATI_BASE_100
      [] base = 200 -> IQS269_CHx_ENG_B_ATI_BASE_200
      [] OTHER -> -1

\* the switch of iqs269_ati_base_set: the field bits for a base, negative if none
AtiBaseBits(base) ==
    CASE base = 75 -> IQS269_CHx_ENG_B_ATI_BASE_75
      [] base = 100 -> IQS269_CHx_ENG_B_ATI_BASE_100
      [] base = 150 -> IQS269_CHx_ENG_B_ATI_BASE_150
      [] base = 200 -> IQS269_CHx_ENG_B_ATI_BASE_200
      [] OTHER -> -1

iqs269_ati_base_check(ch_num, base) ==
    IF ch_num >= IQS269_NUM_CH THEN "EINVAL"
    ELSE IF AtiBaseBits(base) < 0 THEN "EINVAL"
    ELSE "OK"

\* Faulty variant of iqs269_ati_base_locked: the whole low byte of engine B
\* is cleared before the base is merged
BaseLockedClearsByte(s, ch_num, base) ==
    LET engine_b == s.sys_reg.ch_reg[ch_num].engine_b
        cleared  == BitClear(engine_b, 255)
        merged   == BitOr(cleared, AtiBaseBits(base))
    IN  [SetCh(s, ch_num, "engine_b", merged) EXCEPT !.ati_current = FALSE]

iqs269_ati_base_locked(s, ch_num, base) ==
    LET engine_b == s.sys_reg.ch_reg[ch_num].engine_b
        cleared  == BitClear(engine_b, IQS269_CHx_ENG_B_ATI_BASE_MASK)
        merged   == BitOr(cleared, AtiBaseBits(base))
    IN  [SetCh(s, ch_num, "engine_b", merged) EXCEPT !.ati_current = FALSE]

iqs269_ati_base_get(s, ch_num) ==
    IF ch_num >= IQS269_NUM_CH THEN [err |-> "EINVAL", val |-> 0]
    ELSE LET bits == BitAnd(s.sys_reg.ch_reg[ch_num].engine_b,
                            IQS269_CHx_ENG_B_ATI_BASE_MASK)
         IN  CASE bits = IQS269_CHx_ENG_B_ATI_BASE_75 -> [err |-> "OK", val |-> 75]
               [] bits = IQS269_CHx_ENG_B_ATI_BASE_100 -> [err |-> "OK", val |-> 100]
               [] bits = IQS269_CHx_ENG_B_ATI_BASE_150 -> [err |-> "OK", val |-> 150]
               [] bits = IQS269_CHx_ENG_B_ATI_BASE_200 -> [err |-> "OK", val |-> 200]
               [] OTHER -> [err |-> "EINVAL", val |-> 0]

iqs269_ati_target_check(ch_num, target) ==
    IF ch_num >= IQS269_NUM_CH THEN "EINVAL"
    ELSE IF target > IQS269_CHx_ENG_B_ATI_TARGET_MAX THEN "EINVAL"
    ELSE "OK"

\* Faulty variant of iqs269_ati_target_locked: the target is stored without
\* the division by 32
TargetLockedUndivided(s, ch_num, target) ==
    LET engine_b == s.sys_reg.ch_reg[ch_num].engine_b
        cleared  == BitClear(engine_b, IQS269_CHx_ENG_B_ATI_TARGET_MASK)
        merged   == BitOr(cleared, target)
    IN  [SetCh(s, ch_num, "engine_b", merged) EXCEPT !.ati_current = FALSE]

iqs269_ati_target_locked(s, ch_num, target) ==
    LET engine_b == s.sys_reg.ch_reg[ch_num].engine_b
        cleared  == BitClear(engine_b, IQS269_CHx_ENG_B_ATI_TARGET_MASK)
        merged   == BitOr(cleared, target \div 32)
    IN  [SetCh(s, ch_num, "engine_b", merged) EXCEPT !.ati_current = FALSE]

iqs269_ati_target_get(s, ch_num) ==
    IF ch_num >= IQS269_NUM_CH THEN [err |-> "EINVAL", val |-> 0]
    ELSE [err |-> "OK",
          val |-> BitAnd(s.sys_reg.ch_reg[ch_num].engine_b,
                         IQS269_CHx_ENG_B_ATI_TARGET_MASK) * 32]

\* Faulty variant of iqs269_ati_mode_set: a refused call still marks the
\* configuration stale
ModeSetMarksStale(s, ch_num, mode) ==
    IF iqs269_ati_mode_check(ch_num, mode) # "OK"
    THEN [err |-> iqs269_ati_mode_check(ch_num, mode),
          s |-> [s EXCEPT !.ati_current = FALSE]]
    ELSE [err |-> "OK", s |-> iqs269_ati_mode_locked(s, ch_num, mode)]

\* The whole setter as one call, as iqs269_parse_chan makes it: [err, s]
iqs269_ati_mode_set(s, ch_num, mode) ==
    IF iqs269_ati_mode_check(ch_num, mode) # "OK"
    THEN [err |-> iqs269_ati_mode_check(ch_num, mode), s |-> s]
    ELSE [err |-> "OK", s |-> iqs269_ati_mode_locked(s, ch_num, mode)]

iqs269_ati_base_set(s, ch_num, base) ==
    IF iqs269_ati_base_check(ch_num, base) # "OK"
    THEN [err |-> iqs269_ati_base_check(ch_num, base), s |-> s]
    ELSE [err |-> "OK", s |-> iqs269_ati_base_locked(s, ch_num, base)]

iqs269_ati_target_set(s, ch_num, target) ==
    IF iqs269_ati_target_check(ch_num, target) # "OK"
    THEN [err |-> iqs269_ati_target_check(ch_num, target), s |-> s]
    ELSE [err |-> "OK", s |-> iqs269_ati_target_locked(s, ch_num, target)]

----------------------------------------------------------------------------
(* Firmware-node properties.  An optional property is <<>> when absent and *)
(* <<v>> when present with value v (a number, a list or a child node); a   *)
(* boolean property is TRUE when present.                                  *)

Has(o) == Len(o) > 0
Val(o) == o[1]

\* A child event node with no property, a channel node with only "reg",
\* and a device node with no property and no channel.
EventNode == [thresh |-> <<>>, hyst |-> <<>>, code |-> <<>>]

ChanNode(reg) ==
    [reg |-> <<reg>>, reseed_disable |-> FALSE, blocking_enable |-> FALSE,
     slider0_select |-> FALSE, slider1_select |-> FALSE,
     rx_enable |-> <<>>, tx_enable |-> <<>>,
     meas_cap_decrease |-> FALSE, rx_float_inactive |-> FALSE,
     local_cap_size |-> <<>>, invert_enable |-> FALSE, proj_bias |-> <<>>,
     sense_mode |-> <<>>, sense_freq |-> <<>>, static_enable |-> FALSE,
     ati_mode |-> <<>>, ati_base |-> <<>>, ati_target |-> <<>>,
     assoc_select |-> <<>>, assoc_weight |-> <<>>,
     events |-> [i \in 0 .. NUM_EVENTS - 1 |-> <<>>]]

DevNode ==
    [hall_enable |-> FALSE,
     filt_str_lp_lta |-> <<>>, filt_str_lp_cnt |-> <<>>,
     filt_str_np_lta |-> <<>>, filt_str_np_cnt |-> <<>>,
     rate_np_ms |-> <<>>, rate_lp_ms |-> <<>>, rate_ulp_ms |-> <<>>,
     timeout_pwr_ms |-> <<>>, timeout_lta_ms |-> <<>>,
     ati_band_disable |-> FALSE, ati_lp_only |-> FALSE,
     ati_band_tighten |-> FALSE, filt_disable |-> FALSE,
     gpio3_select |-> <<>>, dual_direction |-> FALSE, tx_freq |-> <<>>,
     global_cap_increase |-> FALSE, reseed_select |-> <<>>,
     tracking_enable |-> FALSE, filt_str_slider |-> <<>>,
     touch_hold_ms |-> <<>>, channels |-> <<>>,
     clk_div |-> FALSE, suspend_mode |-> <<>>, ulp_update |-> <<>>,
     keycodes |-> <<>>, gesture_swipe |-> FALSE,
     timeout_tap_ms |-> <<>>, timeout_swipe_ms |-> <<>>,
     thresh_swipe |-> <<>>, reseed_offset |-> FALSE]

----------------------------------------------------------------------------
(* iqs269_parse_mask: [err, mask], mask being *mask on return *)

RECURSIVE ParseMaskLoop(_, _, _)
ParseMaskLoop(val, i, mask) ==
    IF i > Len(val) THEN [err |-> "OK", mask |-> mask]
    ELSE IF val[i] >= IQS269_NUM_CH THEN [err |-> "EINVAL", mask |-> mask]
    ELSE ParseMaskLoop(val, i + 1, BitOr(mask, BIT(val[i])))

\* Faulty variant of iqs269_parse_mask: the mask is not cleared before the
\* loop
ParseMaskNotCleared(prop, mask) ==
    IF ~Has(prop) THEN [err |-> "OK", mask |-> mask]
    ELSE IF Len(Val(prop)) > IQS269_NUM_CH THEN [err |-> "EINVAL", mask |-> mask]
    ELSE ParseMaskLoop(Val(prop), 1, mask)

iqs269_parse_mask(prop, mask) ==
    IF ~Has(prop) THEN [err |-> "OK", mask |-> mask]
    ELSE IF Len(Val(prop)) > IQS269_NUM_CH THEN [err |-> "EINVAL", mask |-> mask]
    ELSE ParseMaskLoop(Val(prop), 1, 0)

----------------------------------------------------------------------------
(* iqs269_parse_chan: [err, s], s being *iqs269 on return *)

\* "word &= ~bit; if (present) word |= bit;" (or, the other way round, the
\* bit set and then cleared when the property is present)
FlagBit(word, present, bit) ==
    IF present THEN BitOr(word, bit) ELSE BitClear(word, bit)

\* "if (cond) word |= bits;"
OrIf(word, cond, bits) == IF cond THEN BitOr(word, bits) ELSE word

\* "word &= ~mask; word |= (val << shift);" when the property was read
FieldIf(word, prop, mask, shift) ==
    IF Has(prop) THEN BitOr(BitClear(word, mask), Val(prop) * BIT(shift))
    ELSE word

\* lines 568-580: the shared masks keyed by the channel index
ChanSharedMasks(s, ch, reg) ==
    [s EXCEPT !.sys_reg =
       [@ EXCEPT
          !.active = BitOr(@, BIT(reg)),
          !.reseed = OrIf(@, ~ch.reseed_disable, BIT(reg)),
          !.blocking = OrIf(@, ch.blocking_enable, BIT(reg)),
          !.slider_select[0] = OrIf(@, ch.slider0_select, BIT(reg)),
          !.slider_select[1] =
             OrIf(@, ch.slider1_select
                       /\ BitAnd(s.otp_option, IQS269_OTP_OPTION_HOLD) = 0,
                  BIT(reg))]]

\* Variant of ChanMask that stores the mask only when the list was accepted
ChanMaskValidated(st, prop, reg, field) ==
    IF st.err # "OK" THEN st
    ELSE LET m == iqs269_parse_mask(prop, st.s.sys_reg.ch_reg[reg][field])
         IN  IF m.err # "OK" THEN [st EXCEPT !.err = m.err]
             ELSE [err |-> "OK", s |-> SetCh(st.s, reg, field, m.mask)]

\* one of the three iqs269_parse_mask calls, on a mask of channel reg
ChanMask(st, prop, reg, field) ==
    IF st.err # "OK" THEN st
    ELSE LET m == iqs269_parse_mask(prop, st.s.sys_reg.ch_reg[reg][field])
         IN  [err |-> m.err, s |-> SetCh(st.s, reg, field, m.mask)]

\* lines 600-679: the two engine words; [err, engine_a, engine_b]
ChanEngines(ch, a0, b0) ==
    LET capv == IF Has(ch.local_cap_size) THEN Val(ch.local_cap_size)
                ELSE IQS269_LOCAL_CAP_SIZE_0
        capok == capv \in {IQS269_LOCAL_CAP_SIZE_0,
                           IQS269_LOCAL_CAP_SIZE_GLOBAL_ONLY,
                           IQS269_LOCAL_CAP_SIZE_GLOBAL_0pF5}
        biasok == ~Has(ch.proj_bias)
                  \/ Val(ch.proj_bias) <= IQS269_CHx_ENG_A_PROJ_BIAS_MAX
        modeok == ~Has(ch.sense_mode)
                  \/ Val(ch.sense_mode) <= IQS269_CHx_ENG_A_SENSE_MODE_MAX
        freqok == ~Has(ch.sense_freq)
                  \/ Val(ch.sense_freq) <= IQS269_CHx_ENG_B_SENSE_FREQ_MAX
        a1 == FlagBit(a0, ~ch.meas_cap_decrease, IQS269_CHx_ENG_A_MEAS_CAP_SIZE)
        a2 == FlagBit(a1, ~ch.rx_float_inactive,
                      IQS269_CHx_ENG_A_RX_GND_INACTIVE)
        a3 == BitClear(a2, IQS269_CHx_ENG_A_LOCAL_CAP_SIZE)
        a4 == OrIf(a3, capv = IQS269_LOCAL_CAP_SIZE_GLOBAL_0pF5,
                   IQS269_CHx_ENG_A_LOCAL_CAP_SIZE)
        a5 == FlagBit(a4, ch.invert_enable, IQS269_CHx_ENG_A_INV_LOGIC)
        a6 == FieldIf(a5, ch.proj_bias, IQS269_CHx_ENG_A_PROJ_BIAS_MASK,
                      IQS269_CHx_ENG_A_PROJ_BIAS_SHIFT)
        a7 == FieldIf(a6, ch.sense_mode, IQS269_CHx_ENG_A_SENSE_MODE_MASK, 0)
        b1 == BitClear(b0, IQS269_CHx_ENG_B_LOCAL_CAP_ENABLE)
        b2 == OrIf(b1, capv \in {IQS269_LOCAL_CAP_SIZE_GLOBAL_0pF5,
                                 IQS269_LOCAL_CAP_SIZE_GLOBAL_ONLY},
                   IQS269_CHx_ENG_B_LOCAL_CAP_ENABLE)
        b3 == FieldIf(b2, ch.sense_freq, IQS269_CHx_ENG_B_SENSE_FREQ_MASK,
                      IQS269_CHx_ENG_B_SENSE_FREQ_SHIFT)
        b4 == FlagBit(b3, ch.static_enable, IQS269_CHx_ENG_B_STATIC_ENABLE)
    IN  IF capok /\ biasok /\ modeok /\ freqok
        THEN [err |-> "OK", engine_a |-> a7, engine_b |-> b4]
        ELSE [err |-> "EINVAL", engine_a |-> a0, engine_b |-> b0]

\* lines 597-679: the engine words are stored once every property passed
ChanEng(st, ch, reg) ==
    IF st.err # "OK" THEN st
    ELSE LET eng == ChanEngines(ch, st.s.sys_reg.ch_reg[reg].engine_a,
                                st.s.sys_reg.ch_reg[reg].engine_b)
         IN  [err |-> eng.err,
              s |-> SetCh(SetCh(st.s, reg, "engine_a", eng.engine_a),
                          reg, "engine_b", eng.engine_b)]

\* lines 680-708: the ATI properties go through the setters
ChanAtiMode(st, ch, reg) ==
    IF st.err # "OK" \/ ~Has(ch.ati_mode) THEN st
    ELSE iqs269_ati_mode_set(st.s, reg, Val(ch.ati_mode))

ChanAtiBase(st, ch, reg) ==
    IF st.err # "OK" \/ ~Has(ch.ati_base) THEN st
    ELSE iqs269_ati_base_set(st.s, reg, Val(ch.ati_base))

ChanAtiTarget(st, ch, reg) ==
    IF st.err # "OK" \/ ~Has(ch.ati_target) THEN st
    ELSE iqs269_ati_target_set(st.s, reg, Val(ch.ati_target))

\* lines 717-726: "azoteq,assoc-weight"
ChanWeight(st, ch, reg) ==
    IF st.err # "OK" \/ ~Has(ch.assoc_weight) THEN st
    ELSE IF Val(ch.assoc_weight) > IQS269_CHx_WEIGHT_MAX
    THEN [st EXCEPT !.err = "EINVAL"]
    ELSE [st EXCEPT !.s = SetCh(st.s, reg, "assoc_weight", Val(ch.assoc_weight))]

\* Faulty variant of HystMerge: a touch hysteresis replaces the whole byte
HystMergeWholeByte(hyst, i, val) ==
    IF i = IQS269_EVENT_DEEP_DN \/ i = IQS269_EVENT_DEEP_UP
    THEN BitOr(BitClear(hyst, IQS269_CHx_HYST_DEEP_MASK),
               val * BIT(IQS269_CHx_HYST_DEEP_SHIFT))
    ELSE IF i = IQS269_EVENT_TOUCH_DN \/ i = IQS269_EVENT_TOUCH_UP
    THEN val
    ELSE hyst

\* lines 746-765: the hysteresis byte after one event's "azoteq,hyst"
HystMerge(hyst, i, val) ==
    IF i = IQS269_EVENT_DEEP_DN \/ i = IQS269_EVENT_DEEP_UP
    THEN BitOr(BitClear(hyst, IQS269_CHx_HYST_DEEP_MASK),
               val * BIT(IQS269_CHx_HYST_DEEP_SHIFT))
    ELSE IF i = IQS269_EVENT_TOUCH_DN \/ i = IQS269_EVENT_TOUCH_UP
    THEN BitOr(BitClear(hyst, IQS269_CHx_HYST_TOUCH_MASK), val)
    ELSE hyst

\* lines 735-744: "azoteq,thresh" of event i
EventThresh(st, reg, i, ev) ==
    IF ~Has(ev.thresh) THEN st
    ELSE IF Val(ev.thresh) > IQS269_CHx_THRESH_MAX
    THEN [st EXCEPT !.err = "EINVAL"]
    ELSE [st EXCEPT !.s =
            SetCh(st.s, reg, "thresh",
                  [st.s.sys_reg.ch_reg[reg].thresh
                     EXCEPT ![iqs269_events[i].th_offs] = Val(ev.thresh)])]

\* lines 746-765: "azoteq,hyst" of event i
EventHyst(st, reg, i, ev) ==
    IF st.err # "OK" \/ ~Has(ev.hyst) THEN st
    ELSE IF Val(ev.hyst) > IQS269_CHx_HYST_MAX
    THEN [st EXCEPT !.err = "EINVAL"]
    ELSE [st EXCEPT !.s =
            SetCh(st.s, reg, "hyst",
                  HystMerge(st.s.sys_reg.ch_reg[reg].hyst, i, Val(ev.hyst)))]

\* lines 777-794: where "linux,code" of event i on channel reg is stored
ChanCode(s, reg, i, val) ==
    [s EXCEPT
       !.switches[i] =
          IF reg = IQS269_CHx_HALL_ACTIVE /\ s.hall_enable
          THEN [code |-> val, enabled |-> TRUE] ELSE @,
       !.keycode[i * IQS269_NUM_CH + reg] =
          IF reg \in {IQS269_CHx_HALL_ACTIVE, IQS269_CHx_HALL_INACTIVE}
             /\ s.hall_enable
          THEN @ ELSE val,
       !.sys_reg.event_mask = BitClear(@, iqs269_events[i].mask)]

\* lines 767-794: "linux,code" of event i
EventCode(st, reg, i, ev) ==
    IF st.err # "OK" \/ ~Has(ev.code) THEN st
    ELSE [st EXCEPT !.s = ChanCode(st.s, reg, i, Val(ev.code))]

\* lines 728-795: the loop over iqs269_events[]
RECURSIVE ChanEvents(_, _, _, _)
ChanEvents(st, reg, evs, i) ==
    IF st.err # "OK" \/ i >= NUM_EVENTS THEN st
    ELSE IF ~Has(evs[i]) THEN ChanEvents(st, reg, evs, i + 1)
    ELSE ChanEvents(
           EventCode(EventHyst(EventThresh(st, reg, i, Val(evs[i])),
                               reg, i, Val(evs[i])),
                     reg, i, Val(evs[i])),
           reg, evs, i + 1)

\* lines 568-795, once the channel number is known
ChanBody(s, ch, reg) ==
    ChanEvents(
      ChanWeight(
        ChanMask(
          ChanAtiTarget(
            ChanAtiBase(
              ChanAtiMode(
                ChanEng(
                  ChanMask(
                    ChanMask([err |-> "OK", s |-> ChanSharedMasks(s, ch, reg)],
                             ch.rx_enable, reg, "rx_enable"),
                    ch.tx_enable, reg, "tx_enable"),
                  ch, reg),
                ch, reg),
              ch, reg),
            ch, reg),
          ch.assoc_select, reg, "assoc_select"),
        ch, reg),
      reg, ch.events, 0)

iqs269_parse_chan(s, ch) ==
    IF ~Has(ch.reg) THEN [err |-> "EINVAL", s |-> s]
    ELSE IF Val(ch.reg) >= IQS269_NUM_CH THEN [err |-> "EINVAL", s |-> s]
    ELSE ChanBody(s, ch, Val(ch.reg))

----------------------------------------------------------------------------
(* iqs269_parse_prop: [err, s].  Each stage takes and returns the parse    *)
(* state st = [err, s]; a stage after a failed one changes nothing.        *)

\* "read a u32, reject above max, store val / div in a byte field"
PropU8(st, prop, max, field, div) ==
    IF st.err # "OK" \/ ~Has(prop) THEN st
    ELSE IF Val(prop) > max THEN [st EXCEPT !.err = "EINVAL"]
    ELSE [st EXCEPT !.s = SetSys(st.s, field, Val(prop) \div div)]

\* "read a u32, reject above max, merge it into a sub-field of a byte field"
PropBits(st, prop, max, field, mask, shift) ==
    IF st.err # "OK" \/ ~Has(prop) THEN st
    ELSE IF Val(prop) > max THEN [st EXCEPT !.err = "EINVAL"]
    ELSE [st EXCEPT !.s = SetSys(st.s, field,
                                 BitOr(BitClear(st.s.sys_reg[field], mask),
                                       Val(prop) * BIT(shift)))]

\* lines 816-862
PropFilter(st, node) ==
    LET a == PropBits(st, node.filt_str_lp_lta, IQS269_FILT_STR_MAX, "filter",
                      IQS269_FILT_STR_LP_LTA_MASK, IQS269_FILT_STR_LP_LTA_SHIFT)
        b == PropBits(a, node.filt_str_lp_cnt, IQS269_FILT_STR_MAX, "filter",
                      IQS269_FILT_STR_LP_CNT_MASK, IQS269_FILT_STR_LP_CNT_SHIFT)
        c == PropBits(b, node.filt_str_np_lta, IQS269_FILT_STR_MAX, "filter",
                      IQS269_FILT_STR_NP_LTA_MASK, IQS269_FILT_STR_NP_LTA_SHIFT)
    IN  PropBits(c, node.filt_str_np_cnt, IQS269_FILT_STR_MAX, "filter",
                 IQS269_FILT_STR_NP_CNT_MASK, 0)

\* Faulty variant of PropRates: the ultra-low-power rate is stored undivided
PropRatesUlpUndivided(st, node) ==
    LET a == PropU8(st, node.rate_np_ms, IQS269_RATE_NP_MS_MAX, "rate_np", 1)
        b == PropU8(a, node.rate_lp_ms, IQS269_RATE_LP_MS_MAX, "rate_lp", 1)
        c == PropU8(b, node.rate_ulp_ms, IQS269_RATE_ULP_MS_MAX, "rate_ulp", 1)
        d == PropU8(c, node.timeout_pwr_ms, IQS269_TIMEOUT_PWR_MS_MAX,
                    "timeout_pwr", 512)
    IN  PropU8(d, node.timeout_lta_ms, IQS269_TIMEOUT_LTA_MS_MAX,
               "timeout_lta", 512)

\* lines 864-912
PropRates(st, node) ==
    LET a == PropU8(st, node.rate_np_ms, IQS269_RATE_NP_MS_MAX, "rate_np", 1)
        b == PropU8(a, node.rate_lp_ms, IQS269_RATE_LP_MS_MAX, "rate_lp", 1)
        c == PropU8(b, node.rate_ulp_ms, IQS269_RATE_ULP_MS_MAX, "rate_ulp", 16)
        d == PropU8(c, node.timeout_pwr_ms, IQS269_TIMEOUT_PWR_MS_MAX,
                    "timeout_pwr", 512)
    IN  PropU8(d, node.timeout_lta_ms, IQS269_TIMEOUT_LTA_MS_MAX,
               "timeout_lta", 512)

\* lines 914-993: the two misc words are built in locals and stored at the end
PropMisc(st, node) ==
    IF st.err # "OK" THEN st
    ELSE
      LET gpbad == Has(node.gpio3_select)
                   /\ Val(node.gpio3_select) >= IQS269_NUM_CH
          txbad == Has(node.tx_freq)
                   /\ Val(node.tx_freq) > IQS269_MISC_A_TX_FREQ_MAX
          rsbad == Has(node.reseed_select)
                   /\ Val(node.reseed_select) > IQS269_MISC_B_RESEED_UI_SEL_MAX
          fsbad == Has(node.filt_str_slider)
                   /\ Val(node.filt_str_slider) > IQS269_FILT_STR_MAX
          a1 == FlagBit(st.s.sys_reg.misc_a, node.ati_band_disable,
                        IQS269_MISC_A_ATI_BAND_DISABLE)
          a2 == FlagBit(a1, node.ati_lp_only, IQS269_MISC_A_ATI_LP_ONLY)
          a3 == FlagBit(a2, node.ati_band_tighten, IQS269_MISC_A_ATI_BAND_TIGHTEN)
          a4 == FlagBit(a3, node.filt_disable, IQS269_MISC_A_FILT_DISABLE)
          a5 == FieldIf(a4, node.gpio3_select, IQS269_MISC_A_GPIO3_SELECT_MASK,
                        IQS269_MISC_A_GPIO3_SELECT_SHIFT)
          a6 == FlagBit(a5, node.dual_direction, IQS269_MISC_A_DUAL_DIR)
          a7 == FieldIf(a6, node.tx_freq, IQS269_MISC_A_TX_FREQ_MASK,
                        IQS269_MISC_A_TX_FREQ_SHIFT)
          a8 == FlagBit(a7, node.global_cap_increase,
                        IQS269_MISC_A_GLOBAL_CAP_SIZE)
          b1 == FieldIf(st.s.sys_reg.misc_b, node.reseed_select,
                        IQS269_MISC_B_RESEED_UI_SEL_MASK,
                        IQS269_MISC_B_RESEED_UI_SEL_SHIFT)
          b2 == FlagBit(b1, node.tracking_enable,
                        IQS269_MISC_B_TRACKING_UI_ENABLE)
          b3 == FieldIf(b2, node.filt_str_slider, IQS269_MISC_B_FILT_STR_SLIDER, 0)
      IN  IF gpbad \/ txbad \/ rsbad \/ fsbad
          THEN [st EXCEPT !.err = "EINVAL"]
          ELSE [st EXCEPT !.s = SetSys(SetSys(st.s, "misc_a", a8), "misc_b", b3)]

\* Faulty variant of PropSliderSel: the default ceiling is not cached for
\* early firmware, the byte stays as it was read from the device
PropSliderSelNoDefault(st, node) ==
    IF st.err # "OK" THEN st
    ELSE
      LET r0 == [st.s.sys_reg EXCEPT !.active = 0, !.reseed = 0,
                                     !.blocking = 0, !.slider_select[0] = 0]
          hold == BitAnd(st.s.otp_option, IQS269_OTP_OPTION_HOLD) # 0
          thbad == hold /\ Has(node.touch_hold_ms)
                   /\ (\/ Val(node.touch_hold_ms) < IQS269_TOUCH_HOLD_MS_MIN
                       \/ Val(node.touch_hold_ms) > IQS269_TOUCH_HOLD_MS_MAX)
          r1 == IF hold
                THEN IF Has(node.touch_hold_ms)
                     THEN [r0 EXCEPT !.slider_select[1] =
                                        Val(node.touch_hold_ms) \div 256]
                     ELSE r0
                ELSE [r0 EXCEPT !.slider_select[1] = 0]
          r2 == [r1 EXCEPT !.event_mask = Not8(IQS269_EVENT_MASK_SYS)]
      IN  IF thbad
          THEN [err |-> "EINVAL", s |-> [st.s EXCEPT !.sys_reg = r0]]
          ELSE [err |-> "OK", s |-> [st.s EXCEPT !.sys_reg = r2]]

\* lines 995-1039: masks cleared, the slider-1 selection byte, the event mask
PropSliderSel(st, node) ==
    IF st.err # "OK" THEN st
    ELSE
      LET r0 == [st.s.sys_reg EXCEPT !.active = 0, !.reseed = 0,
                                     !.blocking = 0, !.slider_select[0] = 0]
          hold == BitAnd(st.s.otp_option, IQS269_OTP_OPTION_HOLD) # 0
          thbad == hold /\ Has(node.touch_hold_ms)
                   /\ (\/ Val(node.touch_hold_ms) < IQS269_TOUCH_HOLD_MS_MIN
                       \/ Val(node.touch_hold_ms) > IQS269_TOUCH_HOLD_MS_MAX)
          r1 == IF hold
                THEN IF Has(node.touch_hold_ms)
                     THEN [r0 EXCEPT !.slider_select[1] =
                                        Val(node.touch_hold_ms) \div 256]
                     ELSE IF st.s.fw_num < IQS269_VER_INFO_FW_NUM_3
                     THEN [r0 EXCEPT !.slider_select[1] =
                                        IQS269_TOUCH_HOLD_DEFAULT]
                     ELSE r0
                ELSE [r0 EXCEPT !.slider_select[1] = 0]
          r2 == [r1 EXCEPT !.event_mask = Not8(IQS269_EVENT_MASK_SYS)]
      IN  IF thbad
          THEN [err |-> "EINVAL", s |-> [st.s EXCEPT !.sys_reg = r0]]
          ELSE [err |-> "OK", s |-> [st.s EXCEPT !.sys_reg = r2]]

\* lines 1041-1051: every child channel node, then the redo-ATI mask
RECURSIVE PropChanLoop(_, _, _)
PropChanLoop(st, chans, k) ==
    IF st.err # "OK" \/ k > Len(chans) THEN st
    ELSE PropChanLoop(iqs269_parse_chan(st.s, chans[k]), chans, k + 1)

\* Faulty variant of PropChans: the redo-ATI mask is left as it was read
PropChansRedoKept(st, node) == PropChanLoop(st, node.channels, 1)

PropChans(st, node) ==
    LET c == PropChanLoop(st, node.channels, 1)
    IN  IF c.err # "OK" THEN c
        ELSE [c EXCEPT !.s = SetSys(c.s, "redo_ati", c.s.sys_reg.active)]

\* lines 1102-1104: the first count keycodes land in sl_code[][] row by row
ReadKeycodes(sl_code, codes) ==
    [n \in 0 .. IQS269_NUM_SL - 1 |->
        [g \in 0 .. IQS269_NUM_GESTURES - 1 |->
            IF n * IQS269_NUM_GESTURES + g + 1 <= Len(codes)
            THEN codes[n * IQS269_NUM_GESTURES + g + 1]
            ELSE sl_code[n][g]]]

\* Faulty variant of GestureScale: the scale is 1 on every revision
GestureScaleFixed(fw_num) == 1

\* the step divisor of the tap and swipe timeouts, lines 1090, 1119-1120
GestureScale(fw_num) == IF fw_num < IQS269_VER_INFO_FW_NUM_3 THEN 4 ELSE 1

\* lines 1106-1133: the gesture timings, read when "linux,keycodes" is present
PropGestures(st, node, scale) ==
    LET a == PropU8(st, node.timeout_tap_ms,
                    IQS269_TIMEOUT_TAP_MS_MAX \div scale,
                    "timeout_tap", 16 \div scale)
        b == PropU8(a, node.timeout_swipe_ms,
                    IQS269_TIMEOUT_SWIPE_MS_MAX \div scale,
                    "timeout_swipe", 16 \div scale)
    IN  PropU8(b, node.thresh_swipe, IQS269_THRESH_SWIPE_MAX, "thresh_swipe", 1)

\* Faulty variant of PropGeneralStore: only slider 0 is asked for its type
PropGeneralStoreSlider0Only(st, kc, g) ==
    IF st.err # "OK" THEN st
    ELSE [st EXCEPT !.s =
            [st.s EXCEPT
               !.sys_reg.event_mask =
                  IF kc THEN BitClear(@, IQS269_EVENT_MASK_GESTURE) ELSE @,
               !.sys_reg.general =
                  BitOr(BitOr(OrIf(g, iqs269_slider_type(st.s, 0)
                                        = IQS269_SLIDER_RAW,
                                   IQS269_SYS_SETTINGS_EVENT_MODE_LP),
                              IQS269_SYS_SETTINGS_REDO_ATI),
                        IQS269_SYS_SETTINGS_ACK_RESET)]]

\* lines 1135-1177: the gesture events unmasked, the event mode, the store
PropGeneralStore(st, kc, g) ==
    IF st.err # "OK" THEN st
    ELSE [st EXCEPT !.s =
            [st.s EXCEPT
               !.sys_reg.event_mask =
                  IF kc THEN BitClear(@, IQS269_EVENT_MASK_GESTURE) ELSE @,
               !.sys_reg.general =
                  BitOr(BitOr(OrIf(g, AnySliderRaw(st.s),
                                   IQS269_SYS_SETTINGS_EVENT_MODE_LP),
                              IQS269_SYS_SETTINGS_REDO_ATI),
                        IQS269_SYS_SETTINGS_ACK_RESET)]]

\* lines 1053-1177: the general word is built in a local and stored last
PropGeneral(st, node) ==
    IF st.err # "OK" THEN st
    ELSE
      LET kc == Has(node.keycodes)
          smbad == Has(node.suspend_mode)
                   /\ Val(node.suspend_mode) > IQS269_SYS_SETTINGS_PWR_MODE_MAX
          ulbad == Has(node.ulp_update)
                   /\ Val(node.ulp_update) > IQS269_SYS_SETTINGS_ULP_UPDATE_MAX
          kcbad == kc /\ Len(Val(node.keycodes))
                           > IQS269_NUM_GESTURES * IQS269_NUM_SL
          g1 == OrIf(st.s.sys_reg.general, node.clk_div,
                     IQS269_SYS_SETTINGS_CLK_DIV)
          g2 == BitClear(BitClear(BitClear(g1, IQS269_SYS_SETTINGS_ULP_AUTO),
                                  IQS269_SYS_SETTINGS_DIS_AUTO),
                         IQS269_SYS_SETTINGS_PWR_MODE_MASK)
          g3 == FieldIf(g2, node.suspend_mode, 0,
                        IQS269_SYS_SETTINGS_PWR_MODE_SHIFT)
          g4 == FieldIf(g3, node.ulp_update, IQS269_SYS_SETTINGS_ULP_UPDATE_MASK,
                        IQS269_SYS_SETTINGS_ULP_UPDATE_SHIFT)
          g5 == OrIf(g4, kc /\ node.gesture_swipe,
                     IQS269_SYS_SETTINGS_SLIDER_SWIPE)
          g6 == FlagBit(g5, node.reseed_offset, IQS269_SYS_SETTINGS_RESEED_OFFSET)
          g7 == BitOr(g6, IQS269_SYS_SETTINGS_EVENT_MODE)
          t  == IF kc
                THEN PropGestures(
                       [st EXCEPT !.s.sl_code = ReadKeycodes(@, Val(node.keycodes))],
                       node, GestureScale(st.s.fw_num))
                ELSE st
      IN  IF smbad \/ ulbad \/ kcbad THEN [st EXCEPT !.err = "EINVAL"]
          ELSE PropGeneralStore(t, kc, g7)

\* lines 800-1180.  image is what regmap_raw_read of IQS269_SYS_SETTINGS
\* returns (the registers the device holds at probe), readok whether it succeeds.
iqs269_parse_prop(s, node, image, readok) ==
    LET s0 == [s EXCEPT !.hall_enable = node.hall_enable]
    IN  IF ~readok THEN [err |-> "EIO", s |-> s0]
        ELSE PropGeneral(
               PropChans(
                 PropSliderSel(
                   PropMisc(
                     PropRates(
                       PropFilter([err |-> "OK",
                                   s |-> [s0 EXCEPT !.sys_reg = image]], node),
                       node),
                     node),
                   node),
                 node),
               node)

----------------------------------------------------------------------------
(* iqs269_report, lines 1367-1450: the input_report_key, input_report_abs, *)
(* input_report_switch and input_sync calls of one clean snapshot, in the  *)
(* order the handler makes them.  A call is <<device, type, code, value>>. *)

SliderDev(i) == IF i = 0 THEN "slider0" ELSE "slider1"

Sync(d) == <<d, "sync", 0, 0>>

\* flags.gesture >>= (i * IQS269_NUM_GESTURES), applied in every iteration
RECURSIVE GestureAt(_, _)
GestureAt(gesture, i) ==
    IF i = 0 THEN gesture
    ELSE GestureAt(gesture, i - 1) \div BIT(i * IQS269_NUM_GESTURES)

\* Faulty variant of MomentaryMask: a hold is released like a tap or a flick
MomentaryMaskWithHold ==
    BIT(IQS269_GESTURE_FLICK_NEG) + BIT(IQS269_GESTURE_FLICK_POS)
      + BIT(IQS269_GESTURE_TAP) + BIT(IQS269_GESTURE_HOLD)

MomentaryMask ==
    BIT(IQS269_GESTURE_FLICK_NEG) + BIT(IQS269_GESTURE_FLICK_POS)
      + BIT(IQS269_GESTURE_TAP)

\* case IQS269_SLIDER_KEY, up to its break
SliderKeyReports(s, i, g) ==
    LET first == [j \in 1 .. IQS269_NUM_GESTURES |->
                    <<SliderDev(i), "key", s.sl_code[i][j - 1],
                      Bool01(BitAnd(g, BIT(j - 1)))>>]
        idx == SelectSeq([j \in 1 .. IQS269_NUM_GESTURES |-> j - 1],
                         LAMBDA j : j # IQS269_GESTURE_HOLD)
        release == [k \in 1 .. Len(idx) |->
                      <<SliderDev(i), "key", s.sl_code[i][idx[k]], 0>>]
    IN  IF BitAnd(g, MomentaryMask) = 0 THEN first
        ELSE first \o <<Sync(SliderDev(i))>> \o release

\* Faulty variant of SliderRawReports: the coordinate is reported whether or
\* not the slider is touched
SliderRawReportsAlwaysX(s, i, touch, x) ==
    LET state == BitAnd(touch, s.sys_reg.slider_select[i])
    IN  <<<<SliderDev(i), "key", BTN_TOUCH, Bool01(state)>>,
          <<SliderDev(i), "abs", ABS_X, x>>>>

\* case IQS269_SLIDER_RAW, up to its break
SliderRawReports(s, i, touch, x) ==
    LET state == BitAnd(touch, s.sys_reg.slider_select[i])
    IN  <<<<SliderDev(i), "key", BTN_TOUCH, Bool01(state)>>>>
          \o (IF state # 0 THEN <<<<SliderDev(i), "abs", ABS_X, x>>>> ELSE <<>>)

\* one iteration of the loop over the sliders, lines 1367-1415
SliderReports(s, fl, slider_x, i) ==
    LET type == iqs269_slider_type(s, i)
    IN  IF type = IQS269_SLIDER_NONE THEN <<>>
        ELSE (IF type = IQS269_SLIDER_KEY
              THEN SliderKeyReports(s, i, GestureAt(fl.gesture, i))
              ELSE SliderRawReports(s, i, fl.states[IQS269_ST_OFFS_TOUCH],
                                    slider_x[i]))
               \o <<Sync(SliderDev(i))>>

\* Faulty variant of EventState: the direction mask is inverted for the up
\* events instead of the down events
EventStateInverted(fl, i) ==
    LET dir == fl.states[IQS269_ST_OFFS_DIR]
        dir_mask == IF iqs269_events[i].dir_up THEN Not8(dir) ELSE dir
    IN  BitAnd(fl.states[iqs269_events[i].st_offs], dir_mask)

\* the state byte of event i after the direction mask, lines 1418-1422
EventState(fl, i) ==
    LET dir == fl.states[IQS269_ST_OFFS_DIR]
        dir_mask == IF ~iqs269_events[i].dir_up THEN Not8(dir) ELSE dir
    IN  BitAnd(fl.states[iqs269_events[i].st_offs], dir_mask)

\* Faulty variant of ChannelReports: the switch of the active Hall channel
\* is reported whether or not the event was given a switch code
ChannelReportsAnySwitch(s, state, i, j) ==
    LET bit   == IF TestBit(state, j) THEN 1 ELSE 0
        sw    == IF j = IQS269_CHx_HALL_ACTIVE /\ s.hall_enable
                 THEN <<<<"keypad", "sw", s.switches[i].code, bit>>>>
                 ELSE <<>>
        key   == IF j \in {IQS269_CHx_HALL_ACTIVE, IQS269_CHx_HALL_INACTIVE}
                    /\ s.hall_enable
                 THEN <<>>
                 ELSE <<<<"keypad", "key", s.keycode[i * IQS269_NUM_CH + j], bit>>>>
    IN  sw \o key

\* the switch over channel j for event i, lines 1429-1446; state is the
\* state byte of the event after the direction mask, and the input core
\* stores !!(state & BIT(j))
ChannelReports(s, state, i, j) ==
    LET bit   == IF TestBit(state, j) THEN 1 ELSE 0
        sw    == IF j = IQS269_CHx_HALL_ACTIVE /\ s.hall_enable
                    /\ s.switches[i].enabled
                 THEN <<<<"keypad", "sw", s.switches[i].code, bit>>>>
                 ELSE <<>>
        key   == IF j \in {IQS269_CHx_HALL_ACTIVE, IQS269_CHx_HALL_INACTIVE}
                    /\ s.hall_enable
                 THEN <<>>
                 ELSE <<<<"keypad", "key", s.keycode[i * IQS269_NUM_CH + j], bit>>>>
    IN  sw \o key

\* the loop over the channels for event i, lines 1426-1447
RECURSIVE EventReports(_, _, _, _)
EventReports(s, state, i, j) ==
    IF j >= IQS269_NUM_CH THEN <<>>
    ELSE ChannelReports(s, state, i, j) \o EventReports(s, state, i, j + 1)

\* the loop over iqs269_events[], lines 1417-1448
RECURSIVE KeypadReports(_, _, _)
KeypadReports(s, fl, i) ==
    IF i >= NUM_EVENTS THEN <<>>
    ELSE EventReports(s, EventState(fl, i), i, 0) \o KeypadReports(s, fl, i + 1)

ReportClean(s, fl, slider_x) ==
    SliderReports(s, fl, slider_x, 0) \o SliderReports(s, fl, slider_x, 1)
      \o KeypadReports(s, fl, 0) \o <<Sync("keypad")>>

\* Faulty variant of ReportBranch: the SHOW_RESET test is missing
ReportBranchResetIgnored(system) ==
    IF BitAnd(system, IQS269_SYS_FLAGS_IN_ATI) # 0 THEN "in_ati" ELSE "decode"

\* Faulty variant of ReportBranch: the IN_ATI test is missing
ReportBranchAtiIgnored(system) ==
    IF BitAnd(system, IQS269_SYS_FLAGS_SHOW_RESET) # 0 THEN "reset" ELSE "decode"

\* the branch iqs269_report takes on the system flags, lines 1342-1354
ReportBranch(system) ==
    IF BitAnd(system, IQS269_SYS_FLAGS_SHOW_RESET) # 0 THEN "reset"
    ELSE IF BitAnd(system, IQS269_SYS_FLAGS_IN_ATI) # 0 THEN "in_ati"
    ELSE "decode"

\* iqs269_general_get
iqs269_general_get(s) ==
    BitOr(BitClear(BitClear(s.sys_reg.general, IQS269_SYS_SETTINGS_REDO_ATI),
                   IQS269_SYS_SETTINGS_ACK_RESET),
          IQS269_SYS_SETTINGS_DIS_AUTO)

----------------------------------------------------------------------------
(* The running driver.  Threads: the probing thread, the threaded          *)
(* interrupt handler, two user threads in the sysfs attributes (bound to   *)
(* the device once probe has succeeded) and the PM core.                   *)

Threads == {"probe", "irqt", "a1", "a2", "pm"}
AttrThreads == {"a1", "a2"}

\* Bounds of a session: the attribute and PM callbacks entered, in a
\* session of the running driver and in a short one
MaxOps == 2
MaxSolo == 1

NoOp == [name |-> "none", ch |-> 0, val |-> 0]
NoFlags == [read |-> FALSE, system |-> 0, gesture |-> 0,
            states |-> [k \in 0 .. 3 |-> 0]]
NoWrites == [calls |-> 0, images |-> 0]

Goto(t, l) == pc' = [pc EXCEPT ![t] = l]

\* Return from an attribute or PM callback, or from the handler
Finish(t, r) ==
    /\ pc' = [pc EXCEPT ![t] = "ret"]
    /\ res' = [res EXCEPT ![t] = r]

(* The firmware nodes and the devices a session may be probed with *)

\* slider 0 mapped to gesture keys (KEY_A, KEY_B, KEY_C, KEY_D), slider 1
\* without codes, channel 2 a proximity key (KEY_1), channel 7 a touch code
\* (SW_LID, the switch when Hall mode is on)
NodeSliders ==
    [DevNode EXCEPT
       !.suspend_mode = <<1>>,
       !.keycodes = <<<<30, 48, 46, 32>>>>,
       !.channels =
          <<[ChanNode(0) EXCEPT !.slider0_select = TRUE],
            [ChanNode(1) EXCEPT !.slider1_select = TRUE],
            [ChanNode(2) EXCEPT
               !.events[IQS269_EVENT_PROX_DN] =
                  <<[EventNode EXCEPT !.thresh = <<10>>, !.code = <<2>>]>>],
            [ChanNode(6) EXCEPT !.rx_enable = <<<<0>>>>],
            [ChanNode(7) EXCEPT
               !.rx_enable = <<<<0>>>>,
               !.events[IQS269_EVENT_TOUCH_DN] =
                  <<[EventNode EXCEPT !.code = <<5>>]>>]>>]

\* an out-of-range rate, and a channel with an ATI base that is no enum value
NodeBadRate == [NodeSliders EXCEPT !.rate_ulp_ms = <<IQS269_RATE_ULP_MS_MAX + 1>>]
NodeBadBase ==
    [NodeSliders EXCEPT
       !.channels = <<[ChanNode(3) EXCEPT !.ati_base = <<50>>]>>]

Nodes == {NodeSliders, NodeBadRate, NodeBadBase}

\* (match data, firmware number) of the devices
Devices ==
    {<<IQS269_OTP_OPTION_DEFAULT, IQS269_VER_INFO_FW_NUM_3>>,
     <<IQS269_OTP_OPTION_TWS, IQS269_VER_INFO_FW_NUM_2>>}

\* the status snapshots the device hands to the handler: a tap and a hold
\* reported clean, and the same tap with the ATI flag and with the reset flag
Payloads ==
    {[gesture |-> BIT(IQS269_GESTURE_TAP),
      states |-> [k \in 0 .. 3 |-> IF k = IQS269_ST_OFFS_DIR THEN 0 ELSE 6]],
     [gesture |-> BIT(IQS269_GESTURE_HOLD),
      states |-> [k \in 0 .. 3 |-> IF k = IQS269_ST_OFFS_DEEP THEN 0 ELSE 128]]}

Snapshots ==
    {[read |-> TRUE, system |-> 0, gesture |-> p.gesture, states |-> p.states] :
        p \in Payloads}
    \cup
    {[read |-> TRUE, system |-> w, gesture |-> BIT(IQS269_GESTURE_TAP),
      states |-> [k \in 0 .. 3 |-> 6]] :
        w \in {IQS269_SYS_FLAGS_IN_ATI, IQS269_SYS_FLAGS_SHOW_RESET}}

SliderXs == {[i \in 0 .. 1 |-> 0], [i \in 0 .. 1 |-> 100 + i]}

InitOf(max) ==
    /\ iqs269 = ZeroPrivate
    /\ dev \in {[otp |-> d[1], fw_num |-> d[2], hall_ui |-> FALSE,
                 image |-> ZeroSysReg, general |-> 0, written |-> FALSE] :
                  d \in Devices}
    /\ irq = [requested |-> FALSE, depth |-> 0]
    /\ input = {}
    /\ pc = [t \in Threads |-> IF t = "probe" THEN "p_start" ELSE "idle"]
    /\ op = [t \in Threads |-> NoOp]
    /\ res = [t \in Threads |-> "none"]
    /\ flags = NoFlags
    /\ events = <<>>
    /\ writes = [t \in Threads |-> NoWrites]
    /\ hist = [ops |-> 0, max |-> max, arm_clean |-> FALSE, prev |-> "other",
               last |-> [image |-> ZeroSysReg, hall |-> FALSE]]
    /\ suspended = FALSE

Init == InitOf(MaxOps)

----------------------------------------------------------------------------
(* iqs269_dev_init, run by the thread t that called it *)

AfterDevInit(t) ==
    CASE t = "probe" -> "p_inited"
      [] t = "irqt" -> "ret"
      [] OTHER -> "x_enable"

NeedsTwsInit(s) ==
    /\ s.otp_option = IQS269_OTP_OPTION_TWS
    /\ s.fw_num < IQS269_VER_INFO_FW_NUM_3

\* guard(mutex)(&iqs269->lock)
DevInitLock(t) ==
    /\ pc[t] = "di_lock"
    /\ iqs269.lock = "free"
    /\ iqs269' = [iqs269 EXCEPT !.lock = t]
    /\ writes' = [writes EXCEPT ![t].calls = @ + 1]
    /\ Goto(t, IF NeedsTwsInit(iqs269) THEN "di_tws" ELSE "di_hall")
    /\ UNCHANGED <<dev, irq, input, op, res, flags, events, hist, suspended>>

\* Faulty variant of DevInitFail: the failed rewrite marks the configuration
\* current
DevInitFailMarksCurrent(t) ==
    /\ iqs269' = [iqs269 EXCEPT !.lock = "free", !.ati_current = TRUE]
    /\ res' = [res EXCEPT ![t] = "EIO"]
    /\ Goto(t, AfterDevInit(t))

\* Faulty variant of DevInitFail: the error return leaves the lock held
DevInitFailKeepsLock(t) ==
    /\ iqs269' = iqs269
    /\ res' = [res EXCEPT ![t] = "EIO"]
    /\ Goto(t, AfterDevInit(t))

\* dev_init left with an error: the guard drops the lock
DevInitFail(t) ==
    /\ iqs269' = [iqs269 EXCEPT !.lock = "free"]
    /\ res' = [res EXCEPT ![t] = "EIO"]
    /\ Goto(t, AfterDevInit(t))

\* regmap_multi_reg_write(iqs269_tws_init)
DevInitTws(t) ==
    /\ pc[t] = "di_tws"
    /\ iqs269.lock = t
    /\ \/ /\ dev' = [dev EXCEPT !.image.slider_select =
                        [n \in 0 .. 1 |-> IF n = 1 THEN IQS269_TOUCH_HOLD_DEFAULT
                                          ELSE 0]]
          /\ Goto(t, "di_hall")
          /\ UNCHANGED <<iqs269, res>>
       \/ /\ DevInitFail(t)
          /\ UNCHANGED dev
    /\ UNCHANGED <<irq, input, op, flags, events, writes, hist, suspended>>

\* regmap_update_bits(IQS269_HALL_UI, IQS269_HALL_UI_ENABLE, ...)
DevInitHall(t) ==
    /\ pc[t] = "di_hall"
    /\ iqs269.lock = t
    /\ \/ /\ dev' = [dev EXCEPT !.hall_ui = iqs269.hall_enable]
          /\ Goto(t, "di_image")
          /\ UNCHANGED <<iqs269, res>>
       \/ /\ DevInitFail(t)
          /\ UNCHANGED dev
    /\ UNCHANGED <<irq, input, op, flags, events, writes, hist, suspended>>

\* Faulty variant of DevInitImage: the image goes out with the general word
\* of iqs269_general_get, which has REDO_ATI cleared
DevInitImageWithoutRedo(t) ==
    /\ pc[t] = "di_image"
    /\ iqs269.lock = t
    /\ \/ /\ dev' = [dev EXCEPT
                        !.image = [iqs269.sys_reg EXCEPT
                                     !.general = iqs269_general_get(iqs269)],
                        !.general = iqs269_general_get(iqs269),
                        !.written = TRUE]
          /\ writes' = [writes EXCEPT ![t].images = @ + 1]
          /\ hist' = [hist EXCEPT !.last = [image |-> dev'.image,
                                            hall |-> dev.hall_ui]]
          /\ Goto(t, "di_mark")
          /\ UNCHANGED <<iqs269, res>>
       \/ /\ DevInitFail(t)
          /\ UNCHANGED <<dev, writes, hist>>
    /\ UNCHANGED <<irq, input, op, flags, events, suspended>>

\* regmap_raw_write(IQS269_SYS_SETTINGS, &iqs269->sys_reg, ...)
DevInitImage(t) ==
    /\ pc[t] = "di_image"
    /\ iqs269.lock = t
    /\ \/ /\ dev' = [dev EXCEPT !.image = iqs269.sys_reg,
                                !.general = iqs269.sys_reg.general,
                                !.written = TRUE]
          /\ writes' = [writes EXCEPT ![t].images = @ + 1]
          /\ hist' = [hist EXCEPT !.last = [image |-> iqs269.sys_reg,
                                            hall |-> dev.hall_ui]]
          /\ Goto(t, "di_mark")
          /\ UNCHANGED <<iqs269, res>>
       \/ /\ DevInitFail(t)
          /\ UNCHANGED <<dev, writes, hist>>
    /\ UNCHANGED <<irq, input, op, flags, events, suspended>>

\* usleep_range; iqs269->ati_current = true; return 0
DevInitMark(t) ==
    /\ pc[t] = "di_mark"
    /\ iqs269.lock = t
    /\ iqs269' = [iqs269 EXCEPT !.ati_current = TRUE, !.lock = "free"]
    /\ res' = [res EXCEPT ![t] = "OK"]
    /\ Goto(t, AfterDevInit(t))
    /\ UNCHANGED <<dev, irq, input, op, flags, events, writes, hist, suspended>>

----------------------------------------------------------------------------
(* iqs269_probe *)

\* Faulty variant of AfterParse: the result of iqs269_parse_prop is ignored
AfterParseIgnored(err) == "di_lock"

\* lines 1848-1850: "if (error) return error;" after iqs269_parse_prop
AfterParse(err) == IF err = "OK" THEN "di_lock" ELSE "p_unwind"

\* lines 1817-1850: allocation, version read, iqs269_parse_prop
ProbeParse ==
    /\ pc["probe"] = "p_start"
    /\ \E node \in Nodes, readok \in BOOLEAN :
         LET s0 == [ZeroPrivate EXCEPT !.otp_option = dev.otp,
                                       !.fw_num = dev.fw_num]
             r  == iqs269_parse_prop(s0, node, dev.image, readok)
         IN  /\ iqs269' = r.s
             /\ res' = [res EXCEPT !["probe"] = r.err]
             /\ Goto("probe", AfterParse(r.err))
    /\ UNCHANGED <<dev, irq, input, op, flags, events, writes, hist, suspended>>

\* lines 1852-1861: the result of iqs269_dev_init, then iqs269_input_init
ProbeInputInit ==
    /\ pc["probe"] = "p_inited"
    /\ IF res["probe"] # "OK"
       THEN /\ Goto("probe", "p_unwind")
            /\ UNCHANGED <<input, res>>
       ELSE \/ /\ input' = input \cup
                     {SliderDev(i) : i \in {n \in 0 .. IQS269_NUM_SL - 1 :
                         iqs269_slider_type(iqs269, n) # IQS269_SLIDER_NONE}}
               /\ Goto("probe", "p_irq")
               /\ UNCHANGED res
            \/ /\ res' = [res EXCEPT !["probe"] = "ENOMEM"]
               /\ Goto("probe", "p_unwind")
               /\ UNCHANGED input
    /\ UNCHANGED <<iqs269, dev, irq, op, flags, events, writes, hist, suspended>>

\* lines 1863-1869: devm_request_threaded_irq
ProbeRequestIrq ==
    /\ pc["probe"] = "p_irq"
    /\ \/ /\ irq' = [irq EXCEPT !.requested = TRUE]
          /\ Goto("probe", "p_wait")
          /\ UNCHANGED res
       \/ /\ res' = [res EXCEPT !["probe"] = "EIO"]
          /\ Goto("probe", "p_unwind")
          /\ UNCHANGED irq
    /\ UNCHANGED <<iqs269, dev, input, op, flags, events, writes, hist, suspended>>

\* Faulty variant of ProbeWaitDone: the probe goes on without the gate
ProbeWaitDoneUngated ==
    /\ pc["probe"] = "p_wait"
    /\ Goto("probe", "p_keypad")
    /\ UNCHANGED <<iqs269, dev, irq, input, op, res, flags, events, writes, hist,
                   suspended>>

\* lines 1871-1875: wait_for_completion_timeout returns with the gate released
ProbeWaitDone ==
    /\ pc["probe"] = "p_wait"
    /\ iqs269.ati_done
    /\ Goto("probe", "p_keypad")
    /\ UNCHANGED <<iqs269, dev, irq, input, op, res, flags, events, writes, hist,
                   suspended>>

\* ... or after 2000 ms without it
ProbeWaitTimeout ==
    /\ pc["probe"] = "p_wait"
    /\ ~iqs269.ati_done
    /\ res' = [res EXCEPT !["probe"] = "ETIMEDOUT"]
    /\ Goto("probe", "p_unwind")
    /\ UNCHANGED <<iqs269, dev, irq, input, op, flags, events, writes, hist,
                   suspended>>

\* lines 1881-1887: input_register_device(iqs269->keypad)
ProbeRegisterKeypad ==
    /\ pc["probe"] = "p_keypad"
    /\ \/ /\ input' = input \cup {"keypad"}
          /\ Goto("probe", "p_done")
          /\ UNCHANGED res
       \/ /\ res' = [res EXCEPT !["probe"] = "EIO"]
          /\ Goto("probe", "p_unwind")
          /\ UNCHANGED input
    /\ UNCHANGED <<iqs269, dev, irq, op, flags, events, writes, hist, suspended>>

\* a failed probe: the devm resources are released (free_irq waits for the
\* handler, the sliders are unregistered)
ProbeUnwind ==
    /\ pc["probe"] = "p_unwind"
    /\ pc["irqt"] = "idle"
    /\ irq' = [irq EXCEPT !.requested = FALSE]
    /\ input' = {}
    /\ Goto("probe", "p_failed")
    /\ UNCHANGED <<iqs269, dev, op, res, flags, events, writes, hist, suspended>>

----------------------------------------------------------------------------
(* iqs269_irq and iqs269_report, in the handler thread *)

\* complete_all(&iqs269->ati_done)
CompleteAll(s) == [s EXCEPT !.ati_done = TRUE]

\* lines 1329-1354: the status read and the branch on the system flags
IrqRead ==
    /\ pc["irqt"] = "idle"
    /\ irq.requested
    /\ irq.depth = 0
    /\ \/ /\ \E snap \in Snapshots :
               /\ flags' = snap
               /\ LET b == ReportBranch(snap.system)
                  IN  IF b = "reset" THEN Goto("irqt", "di_lock") /\ UNCHANGED res
                      ELSE IF b = "in_ati" THEN Finish("irqt", "OK")
                      ELSE Goto("irqt", "h_decode") /\ UNCHANGED res
       \/ /\ flags' = NoFlags
          /\ Finish("irqt", "EIO")
    /\ UNCHANGED <<iqs269, dev, irq, input, op, events, writes, hist, suspended>>

\* Faulty variant of IrqDecode: complete_all comes before the slider read
IrqDecodeEarlyComplete ==
    /\ pc["irqt"] = "h_decode"
    /\ iqs269' = [iqs269 EXCEPT !.ati_done = TRUE]
    /\ \/ /\ \E slider_x \in SliderXs :
               events' = ReportClean(iqs269, flags, slider_x)
          /\ hist' = [hist EXCEPT !.arm_clean = TRUE]
          /\ Finish("irqt", "OK")
       \/ /\ AnySliderRaw(iqs269)
          /\ Finish("irqt", "EIO")
          /\ UNCHANGED <<events, hist>>
    /\ UNCHANGED <<dev, irq, input, op, flags, writes, suspended>>

\* lines 1356-1458: the slider read, the reports, complete_all
IrqDecode ==
    /\ pc["irqt"] = "h_decode"
    /\ \/ /\ \E slider_x \in SliderXs :
               events' = ReportClean(iqs269, flags, slider_x)
          /\ iqs269' = CompleteAll(iqs269)
          /\ hist' = [hist EXCEPT !.arm_clean = TRUE]
          /\ Finish("irqt", "OK")
       \/ /\ AnySliderRaw(iqs269)
          /\ Finish("irqt", "EIO")
          /\ UNCHANGED <<iqs269, events, hist>>
    /\ UNCHANGED <<dev, irq, input, op, flags, writes, suspended>>

\* what the cycle that returns was: the recovery from a reset, a cycle that
\* failed on a read, or another one
CycleKind(fl, r) ==
    IF fl.read /\ ReportBranch(fl.system) = "reset" THEN "reset"
    ELSE IF r # "OK" THEN "fail"
    ELSE "other"

\* iqs269_irq returns (after iqs269_irq_wait when the report succeeded)
IrqReturn ==
    /\ pc["irqt"] = "ret"
    /\ Goto("irqt", "idle")
    /\ res' = [res EXCEPT !["irqt"] = "none"]
    /\ flags' = NoFlags
    /\ events' = <<>>
    /\ writes' = [writes EXCEPT !["irqt"] = NoWrites]
    /\ hist' = [hist EXCEPT !.prev = CycleKind(flags, res["irqt"])]
    /\ UNCHANGED <<iqs269, dev, irq, input, op, suspended>>

----------------------------------------------------------------------------
(* The sysfs attributes, run by a user thread t *)

\* the driver is bound, user space is running, and t is not in a callback
\* (the user threads are interchangeable: the second one enters a callback
\* only while the first is in one)
AttrIdle(t) ==
    /\ pc["probe"] = "p_done"
    /\ pc["pm"] = "idle"
    /\ ~suspended
    /\ pc[t] \in {"idle", "ret"}
    /\ t = "a2" => pc["a1"] \notin {"idle", "ret"}
    /\ hist.ops < hist.max

\* t enters a callback: what its previous callback left is gone
Begin(t, name, ch, val) ==
    /\ op' = [op EXCEPT ![t] = [name |-> name, ch |-> ch, val |-> val]]
    /\ writes' = [writes EXCEPT ![t] = NoWrites]
    /\ hist' = [hist EXCEPT !.ops = @ + 1]

\* ... and goes on to the step at label l
Enter(t, l) ==
    /\ pc' = [pc EXCEPT ![t] = l]
    /\ res' = [res EXCEPT ![t] = "none"]

\* ch_number_store
ChNumberStore(t) ==
    /\ AttrIdle(t)
    /\ \E val \in {7, IQS269_NUM_CH} :
         /\ Begin(t, "ch_number", 0, val)
         /\ IF val >= IQS269_NUM_CH
            THEN Finish(t, "EINVAL") /\ UNCHANGED iqs269
            ELSE Finish(t, "OK") /\ iqs269' = [iqs269 EXCEPT !.ch_num = val]
    /\ UNCHANGED <<dev, irq, input, flags, events, suspended>>

\* what the ATI setter called by ati_mode_store, ati_base_store or
\* ati_target_store returns before it takes the lock
AtiCheck(name, ch_num, val) ==
    CASE name = "ati_mode" -> iqs269_ati_mode_check(ch_num, val)
      [] name = "ati_base" -> iqs269_ati_base_check(ch_num, val)
      [] OTHER -> iqs269_ati_target_check(ch_num, val)

\* ati_mode_store, ati_base_store, ati_target_store up to guard(mutex)
AtiStore(t) ==
    /\ AttrIdle(t)
    /\ \E name \in {"ati_mode", "ati_base", "ati_target"} :
         \E val \in (CASE name = "ati_mode" ->
                            {2, IQS269_CHx_ENG_A_ATI_MODE_MAX + 1}
                       [] name = "ati_base" -> {100, 50}
                       [] OTHER ->
                            {1000, IQS269_CHx_ENG_B_ATI_TARGET_MAX + 1}) :
           /\ Begin(t, name, iqs269.ch_num, val)
           /\ IF AtiCheck(name, iqs269.ch_num, val) # "OK"
              THEN Finish(t, AtiCheck(name, iqs269.ch_num, val))
              ELSE Enter(t, "s_lock")
    /\ UNCHANGED <<iqs269, dev, irq, input, flags, events, suspended>>

\* rx_enable_store up to guard(mutex)
RxEnableStore(t) ==
    /\ AttrIdle(t)
    /\ \E val \in {IQS269_HALL_PAD_L, 256} :
         /\ Begin(t, "rx_enable", 0, val)
         /\ IF val > 255
            THEN Finish(t, "EINVAL")
            ELSE Enter(t, "s_lock")
    /\ UNCHANGED <<iqs269, dev, irq, input, flags, events, suspended>>

\* hall_enable_store up to guard(mutex)
HallEnableStore(t) ==
    /\ AttrIdle(t)
    /\ \E val \in {0, 1} :
         /\ Begin(t, "hall_enable", 0, val)
         /\ Enter(t, "s_lock")
    /\ UNCHANGED <<iqs269, dev, irq, input, flags, events, suspended>>

\* Faulty variant of SetterLock: the setter goes on without the lock
SetterLockSkipped(t) ==
    /\ pc[t] = "s_lock"
    /\ Goto(t, "s_write")
    /\ UNCHANGED <<iqs269, dev, irq, input, op, res, flags, events, writes, hist,
                   suspended>>

\* guard(mutex)(&iqs269->lock) of a setter
SetterLock(t) ==
    /\ pc[t] = "s_lock"
    /\ iqs269.lock = "free"
    /\ iqs269' = [iqs269 EXCEPT !.lock = t]
    /\ Goto(t, "s_write")
    /\ UNCHANGED <<dev, irq, input, op, res, flags, events, writes, hist,
                   suspended>>

\* Faulty variant of SetterBody: hall_enable_store leaves ati_current alone
SetterBodyHallKeepsCurrent(s, o) ==
    CASE o.name = "ati_mode" -> iqs269_ati_mode_locked(s, o.ch, o.val)
      [] o.name = "ati_base" -> iqs269_ati_base_locked(s, o.ch, o.val)
      [] o.name = "ati_target" -> iqs269_ati_target_locked(s, o.ch, o.val)
      [] o.name = "rx_enable" ->
           [SetCh(s, s.ch_num, "rx_enable", o.val) EXCEPT !.ati_current = FALSE]
      [] OTHER ->
           [s EXCEPT !.hall_enable = (o.val # 0)]

\* the body of a setter under the lock
SetterBody(s, o) ==
    CASE o.name = "ati_mode" -> iqs269_ati_mode_locked(s, o.ch, o.val)
      [] o.name = "ati_base" -> iqs269_ati_base_locked(s, o.ch, o.val)
      [] o.name = "ati_target" -> iqs269_ati_target_locked(s, o.ch, o.val)
      [] o.name = "rx_enable" ->
           [SetCh(s, s.ch_num, "rx_enable", o.val) EXCEPT !.ati_current = FALSE]
      [] OTHER ->
           [s EXCEPT !.hall_enable = (o.val # 0), !.ati_current = FALSE]

\* Faulty variant of SetterWrite: the setter returns with the lock held
SetterWriteKeepsLock(t) ==
    /\ pc[t] = "s_write"
    /\ iqs269.lock = t
    /\ iqs269' = SetterBody(iqs269, op[t])
    /\ Finish(t, "OK")
    /\ UNCHANGED <<dev, irq, input, op, flags, events, writes, hist, suspended>>

\* the read-modify-write, ati_current = false, and the return that unlocks
SetterWrite(t) ==
    /\ pc[t] = "s_write"
    /\ iqs269.lock = t
    /\ iqs269' = [SetterBody(iqs269, op[t]) EXCEPT !.lock = "free"]
    /\ Finish(t, "OK")
    /\ UNCHANGED <<dev, irq, input, op, flags, events, writes, hist, suspended>>

\* Faulty variant of ati_trigger_show: the gate is not looked at
ati_trigger_show_no_gate(s) == IF s.ati_current THEN 1 ELSE 0

\* ati_trigger_show: the value printed
ati_trigger_show(s) == IF s.ati_current /\ s.ati_done THEN 1 ELSE 0

AtiTriggerShow(t) ==
    /\ AttrIdle(t)
    /\ Begin(t, "ati_trigger_show", 0, ati_trigger_show(iqs269))
    /\ Finish(t, "OK")
    /\ UNCHANGED <<iqs269, dev, irq, input, flags, events, suspended>>

\* Faulty variant of CountsShow: the gate is not tested
CountsShowGateIgnored(t) ==
    /\ AttrIdle(t)
    /\ Begin(t, "counts", iqs269.ch_num, 0)
    /\ IF ~iqs269.ati_current \/ iqs269.hall_enable THEN Finish(t, "EPERM")
       ELSE Enter(t, "x_disable")
    /\ UNCHANGED <<iqs269, dev, irq, input, flags, events, suspended>>

\* counts_show, lines 1486-1490, up to disable_irq
CountsShow(t) ==
    /\ AttrIdle(t)
    /\ Begin(t, "counts", iqs269.ch_num, 0)
    /\ IF ~iqs269.ati_current \/ iqs269.hall_enable THEN Finish(t, "EPERM")
       ELSE IF ~iqs269.ati_done THEN Finish(t, "EBUSY")
       ELSE Enter(t, "x_disable")
    /\ UNCHANGED <<iqs269, dev, irq, input, flags, events, suspended>>

\* hall_bin_show up to disable_irq
HallBinShow(t) ==
    /\ AttrIdle(t)
    /\ Begin(t, "hall_bin", 0, 0)
    /\ Enter(t, "x_disable")
    /\ UNCHANGED <<iqs269, dev, irq, input, flags, events, suspended>>

\* ati_trigger_store, lines 1757-1762, up to disable_irq
AtiTriggerStore(t) ==
    /\ AttrIdle(t)
    /\ \E val \in {0, 1} :
         /\ Begin(t, "ati_trigger", 0, val)
         /\ IF val = 0 THEN Finish(t, "OK")
            ELSE Enter(t, "x_disable")
    /\ UNCHANGED <<iqs269, dev, irq, input, flags, events, suspended>>

----------------------------------------------------------------------------
(* disable_irq ... iqs269_irq_wait, enable_irq around a bus transaction *)

\* disable_irq: the line is disabled at once ...
IrqDisable(t) ==
    /\ pc[t] = "x_disable"
    /\ irq' = [irq EXCEPT !.depth = @ + 1]
    /\ Goto(t, "x_sync")
    /\ UNCHANGED <<iqs269, dev, input, op, res, flags, events, writes, hist,
                   suspended>>

\* where the operation goes once disable_irq has returned
AfterDisable(o) ==
    CASE o.name = "counts" -> "c_read"
      [] o.name = "hall_bin" -> "hb_read"
      [] o.name = "ati_trigger" -> "t_reinit"
      [] o.name = "suspend" -> "su_write"
      [] OTHER -> "re_write"

\* Faulty variant of IrqSync: disable_irq_nosync, a running handler is not
\* waited for
IrqSyncNoWait(t) ==
    /\ pc[t] = "x_sync"
    /\ Goto(t, AfterDisable(op[t]))
    /\ UNCHANGED <<iqs269, dev, irq, input, op, res, flags, events, writes, hist,
                   suspended>>

\* ... and disable_irq returns once a running handler has finished
IrqSync(t) ==
    /\ pc[t] = "x_sync"
    /\ pc["irqt"] = "idle"
    /\ Goto(t, AfterDisable(op[t]))
    /\ UNCHANGED <<iqs269, dev, irq, input, op, res, flags, events, writes, hist,
                   suspended>>

\* Faulty variant of CountsRead: a failed read returns at once, without
\* enable_irq
CountsReadErrorReturns(t) ==
    /\ pc[t] = "c_read"
    /\ \/ /\ res' = [res EXCEPT ![t] = "OK"]
          /\ Goto(t, "x_enable")
       \/ Finish(t, "EIO")
    /\ UNCHANGED <<iqs269, dev, irq, input, op, flags, events, writes, hist,
                   suspended>>

\* regmap_raw_read(IQS269_CHx_COUNTS + ch_num * 2)
CountsRead(t) ==
    /\ pc[t] = "c_read"
    /\ \E r \in {"OK", "EIO"} : res' = [res EXCEPT ![t] = r]
    /\ Goto(t, "x_enable")
    /\ UNCHANGED <<iqs269, dev, irq, input, op, flags, events, writes, hist,
                   suspended>>

\* the switch of hall_bin_show on the RX masks of the Hall channel pair
HallBinResult(s) ==
    LET pads == BitAnd(s.sys_reg.ch_reg[IQS269_CHx_HALL_ACTIVE].rx_enable,
                       s.sys_reg.ch_reg[IQS269_CHx_HALL_INACTIVE].rx_enable)
    IN  IF pads = IQS269_HALL_PAD_R \/ pads = IQS269_HALL_PAD_L
        THEN "OK" ELSE "EINVAL"

\* regmap_read(IQS269_CAL_DATA_A)
HallBinRead(t) ==
    /\ pc[t] = "hb_read"
    /\ \E r \in {"OK", "EIO"} : res' = [res EXCEPT ![t] = r]
    /\ Goto(t, "x_enable")
    /\ UNCHANGED <<iqs269, dev, irq, input, op, flags, events, writes, hist,
                   suspended>>

\* Faulty variant of ReinitCompletion: the gate is not re-armed
ReinitCompletionForgotten(s) == s

\* reinit_completion(&iqs269->ati_done)
ReinitCompletion(s) == [s EXCEPT !.ati_done = FALSE]

\* reinit_completion, then the call of iqs269_dev_init
TriggerReinit(t) ==
    /\ pc[t] = "t_reinit"
    /\ iqs269' = ReinitCompletion(iqs269)
    /\ hist' = [hist EXCEPT !.arm_clean = FALSE]
    /\ Goto(t, "di_lock")
    /\ UNCHANGED <<dev, irq, input, op, res, flags, events, writes, suspended>>

\* Faulty variant of AfterEnable: the recalibration waits whatever the
\* rewrite returned
AfterEnableAlwaysWait(o, r, s) ==
    CASE o.name = "ati_trigger" -> "t_wait"
      [] OTHER -> "ret"

\* where the operation goes after enable_irq, given the transaction's result
AfterEnable(o, r, s) ==
    CASE o.name = "ati_trigger" -> IF r = "OK" THEN "t_wait" ELSE "ret"
      [] OTHER -> "ret"

\* iqs269_irq_wait(); enable_irq()
IrqEnable(t) ==
    /\ pc[t] = "x_enable"
    /\ irq' = [irq EXCEPT !.depth = @ - 1]
    /\ Goto(t, AfterEnable(op[t], res[t], iqs269))
    /\ res' = IF op[t].name = "hall_bin" /\ res[t] = "OK"
              THEN [res EXCEPT ![t] = HallBinResult(iqs269)] ELSE res
    /\ UNCHANGED <<iqs269, dev, input, op, flags, events, writes, hist, suspended>>

\* wait_for_completion_timeout of ati_trigger_store returns with the gate released
TriggerWaitDone(t) ==
    /\ pc[t] = "t_wait"
    /\ iqs269.ati_done
    /\ Finish(t, "OK")
    /\ UNCHANGED <<iqs269, dev, irq, input, op, flags, events, writes, hist,
                   suspended>>

\* Faulty variant of TriggerWaitTimeout: the timed-out waiter releases the gate
TriggerWaitTimeoutReleases(t) ==
    /\ pc[t] = "t_wait"
    /\ ~iqs269.ati_done
    /\ iqs269' = [iqs269 EXCEPT !.ati_done = TRUE]
    /\ Finish(t, "ETIMEDOUT")
    /\ UNCHANGED <<dev, irq, input, op, flags, events, writes, hist, suspended>>

\* ... or after 2000 ms without it
TriggerWaitTimeout(t) ==
    /\ pc[t] = "t_wait"
    /\ ~iqs269.ati_done
    /\ Finish(t, "ETIMEDOUT")
    /\ UNCHANGED <<iqs269, dev, irq, input, op, flags, events, writes, hist,
                   suspended>>

\* the PM callback returns to the PM core
Return(t) ==
    /\ t = "pm"
    /\ pc[t] = "ret"
    /\ Goto(t, "idle")
    /\ op' = [op EXCEPT ![t] = NoOp]
    /\ res' = [res EXCEPT ![t] = "none"]
    /\ writes' = [writes EXCEPT ![t] = NoWrites]
    /\ suspended' = IF op[t].name = "suspend" /\ res[t] = "OK" THEN TRUE
                    ELSE IF op[t].name = "resume" THEN FALSE
                    ELSE suspended
    /\ UNCHANGED <<iqs269, dev, irq, input, flags, events, hist>>

----------------------------------------------------------------------------
(* iqs269_suspend and iqs269_resume, called by the PM core with user       *)
(* space frozen                                                            *)

PmIdle ==
    /\ pc["probe"] = "p_done"
    /\ pc["pm"] = "idle"
    /\ \A a \in AttrThreads : pc[a] \in {"idle", "ret"}
    /\ hist.ops < hist.max

\* iqs269_suspend up to disable_irq
Suspend ==
    /\ PmIdle
    /\ ~suspended
    /\ Begin("pm", "suspend", 0, iqs269_general_get(iqs269))
    /\ IF BitAnd(iqs269_general_get(iqs269), IQS269_SYS_SETTINGS_PWR_MODE_MASK) = 0
       THEN Finish("pm", "OK")
       ELSE Enter("pm", "x_disable")
    /\ UNCHANGED <<iqs269, dev, irq, input, flags, events, suspended>>

\* regmap_write(IQS269_SYS_SETTINGS, general)
SuspendWrite ==
    /\ pc["pm"] = "su_write"
    /\ \/ /\ dev' = [dev EXCEPT !.general = op["pm"].val]
          /\ res' = [res EXCEPT !["pm"] = "OK"]
       \/ /\ res' = [res EXCEPT !["pm"] = "EIO"]
          /\ UNCHANGED dev
    /\ Goto("pm", "x_enable")
    /\ UNCHANGED <<iqs269, irq, input, op, flags, events, writes, hist, suspended>>

\* iqs269_resume up to disable_irq
Resume ==
    /\ PmIdle
    /\ suspended
    /\ Begin("pm", "resume", 0, iqs269_general_get(iqs269))
    /\ IF BitAnd(iqs269_general_get(iqs269), IQS269_SYS_SETTINGS_PWR_MODE_MASK) = 0
       THEN Finish("pm", "OK")
       ELSE Enter("pm", "x_disable")
    /\ UNCHANGED <<iqs269, dev, irq, input, flags, events, suspended>>

\* the two regmap_write calls of iqs269_resume
ResumeWrite ==
    /\ pc["pm"] = "re_write"
    /\ \/ /\ dev' = [dev EXCEPT !.general =
                        BitClear(op["pm"].val, IQS269_SYS_SETTINGS_DIS_AUTO)]
          /\ res' = [res EXCEPT !["pm"] = "OK"]
       \/ /\ dev' = [dev EXCEPT !.general =
                        BitClear(op["pm"].val, IQS269_SYS_SETTINGS_PWR_MODE_MASK)]
          /\ res' = [res EXCEPT !["pm"] = "EIO"]
       \/ /\ res' = [res EXCEPT !["pm"] = "EIO"]
          /\ UNCHANGED dev
    /\ Goto("pm", "x_enable")
    /\ UNCHANGED <<iqs269, irq, input, op, flags, events, writes, hist, suspended>>

----------------------------------------------------------------------------
DevInit(t) ==
    \/ DevInitLock(t) \/ DevInitTws(t) \/ DevInitHall(t)
    \/ DevInitImage(t) \/ DevInitMark(t)

Probe ==
    \/ ProbeParse \/ ProbeInputInit \/ ProbeRequestIrq \/ ProbeWaitDone
    \/ ProbeWaitTimeout \/ ProbeRegisterKeypad \/ ProbeUnwind

Handler == IrqRead \/ IrqDecode \/ IrqReturn

Attr(t) ==
    \/ ChNumberStore(t) \/ AtiStore(t) \/ RxEnableStore(t) \/ HallEnableStore(t)
    \/ SetterLock(t) \/ SetterWrite(t) \/ AtiTriggerShow(t) \/ CountsShow(t)
    \/ HallBinShow(t) \/ AtiTriggerStore(t) \/ CountsRead(t) \/ HallBinRead(t)
    \/ TriggerReinit(t) \/ TriggerWaitDone(t) \/ TriggerWaitTimeout(t)

Bracket(t) == IrqDisable(t) \/ IrqSync(t) \/ IrqEnable(t) \/ Return(t)

Pm == Suspend \/ SuspendWrite \/ Resume \/ ResumeWrite

Next ==
    \/ Probe
    \/ Handler
    \/ \E t \in {"probe", "irqt"} \cup AttrThreads : DevInit(t)
    \/ \E t \in AttrThreads : Attr(t)
    \/ \E t \in AttrThreads \cup {"pm"} : Bracket(t)
    \/ Pm

Spec == Init /\ [][Next]_vars

\* A short session: the probe, the handler, and MaxSolo callbacks.  The PM
\* core resumes only a device it has suspended, in the callback before, so
\* iqs269_resume is not reached in a session of one callback.
SoloInit == InitOf(MaxSolo)

SoloNext ==
    \/ Probe
    \/ Handler
    \/ \E t \in {"probe", "irqt"} \cup AttrThreads : DevInit(t)
    \/ \E t \in AttrThreads : Attr(t)
    \/ \E t \in AttrThreads \cup {"pm"} : Bracket(t)
    \/ Suspend \/ SuspendWrite

SpecSolo == SoloInit /\ [][SoloNext]_vars

----------------------------------------------------------------------------
(* What the properties below read off a state                              *)

\* the snapshot of the running cycle has the reset bit set
ResetSeen(fl) ==
    fl.read /\ BitAnd(fl.system, IQS269_SYS_FLAGS_SHOW_RESET) # 0

\* ... has the ATI bit set and the reset bit clear
AtiSeen(fl) ==
    /\ fl.read
    /\ BitAnd(fl.system, IQS269_SYS_FLAGS_SHOW_RESET) = 0
    /\ BitAnd(fl.system, IQS269_SYS_FLAGS_IN_ATI) # 0

\* ... has both bits clear
CleanSeen(fl) ==
    /\ fl.read
    /\ BitAnd(fl.system, IQS269_SYS_FLAGS_SHOW_RESET) = 0
    /\ BitAnd(fl.system, IQS269_SYS_FLAGS_IN_ATI) = 0

\* the step is one of the handler thread
HandlerStep == pc'["irqt"] # pc["irqt"]

\* the handler has returned from a successful decode of a clean snapshot
CleanDecoded ==
    pc["irqt"] = "ret" /\ CleanSeen(flags) /\ res["irqt"] = "OK"

\* the step is the return of the handler from a successful decode of a clean
\* snapshot: the gate is released and the calls made are those of the decode
\* of the snapshot under the retained tables
DecodeStep == HandlerStep /\ CleanDecoded'

DecodedNormally ==
    /\ iqs269'.ati_done
    /\ \E x \in SliderXs : events' = ReportClean(iqs269', flags', x)

\* thread t is in ati_trigger_store with a non-zero value
Recalibrating(t) == op[t].name = "ati_trigger" /\ op[t].val # 0

DevInitPcs == {"di_lock", "di_tws", "di_hall", "di_image", "di_mark"}

----------------------------------------------------------------------------
\* C1: a cycle whose snapshot has the reset bit set reports nothing, calls
\* iqs269_dev_init exactly once (one full image, the retained sys_reg, when
\* it succeeds) and leaves the gate as it was; a later cycle whose snapshot
\* is clean, the one right after it included, releases the gate and makes
\* the calls of a decode.
C1State ==
    /\ (pc["irqt"] = "ret" /\ ResetSeen(flags)) =>
          /\ events = <<>>
          /\ writes["irqt"].calls = 1
          /\ writes["irqt"].images <= 1
          /\ res["irqt"] = "OK" => writes["irqt"].images = 1
    /\ pc["irqt"] = "di_mark" =>
          /\ dev.image = iqs269.sys_reg
          /\ dev.hall_ui = iqs269.hall_enable
    /\ (CleanDecoded /\ hist.prev = "reset") => iqs269.ati_done

C1Step ==
    /\ (HandlerStep /\ ResetSeen(flags')) =>
          /\ events' = <<>>
          /\ iqs269'.ati_done = iqs269.ati_done
          /\ hist'.arm_clean = hist.arm_clean
    /\ DecodeStep => DecodedNormally

C1_ResetRecovery == [][C1Step /\ C1State']_vars

C1_Witness ==
    /\ CleanDecoded
    /\ hist.prev = "reset"
    /\ dev.written
    /\ events # <<>>

----------------------------------------------------------------------------
\* C2: a wait on the gate (probe, ati_trigger_store) returns success only
\* when a clean snapshot has been decoded since the gate was last armed; the
\* gate, once released, is armed again only by the reinit_completion of
\* ati_trigger_store, and a wait that finds it released does not time out.
WaitSucceeds ==
    \/ pc["probe"] = "p_wait" /\ pc'["probe"] = "p_keypad"
    \/ \E t \in AttrThreads :
          pc[t] = "t_wait" /\ pc'[t] = "ret" /\ res'[t] = "OK"

WaitTimesOut ==
    \/ pc["probe"] = "p_wait" /\ pc'["probe"] = "p_unwind"
    \/ \E t \in AttrThreads :
          pc[t] = "t_wait" /\ pc'[t] = "ret" /\ res'[t] = "ETIMEDOUT"

C2Step ==
    /\ WaitSucceeds => hist.arm_clean
    /\ WaitTimesOut => ~iqs269.ati_done
    /\ (iqs269.ati_done /\ ~iqs269'.ati_done) =>
          \E t \in AttrThreads :
              Recalibrating(t) /\ pc[t] = "t_reinit" /\ pc'[t] = "di_lock"

C2_CalibrationGate == [][C2Step]_vars

C2_Witness ==
    /\ pc["probe"] = "p_keypad"
    /\ hist.arm_clean
    /\ iqs269.ati_done

----------------------------------------------------------------------------
\* C3: ati_trigger_store with a non-zero value arms the gate, calls
\* iqs269_dev_init once and then waits: it returns 0 only from the wait, with
\* the image written and a clean snapshot decoded since the gate was armed;
\* -ETIMEDOUT only from the wait without one; and the error of the rewrite
\* without having waited.
C3Return(t) ==
    /\ writes'[t].calls = 1
    /\ CASE res'[t] = "OK" ->
              /\ pc[t] = "t_wait"
              /\ writes'[t].images = 1
              /\ hist.arm_clean
         [] res'[t] = "ETIMEDOUT" ->
              /\ pc[t] = "t_wait"
              /\ writes'[t].images = 1
              /\ ~hist.arm_clean
         [] OTHER ->
              /\ res'[t] = "EIO"
              /\ pc[t] = "x_enable"
              /\ writes'[t].images = 0

C3Step ==
    \A t \in AttrThreads :
        /\ (Recalibrating(t) /\ pc[t] # "ret" /\ pc'[t] = "ret") => C3Return(t)
        /\ (op'[t].name = "ati_trigger"
               /\ pc'[t] \in DevInitPcs \cup {"x_enable"}) =>
              ~iqs269'.ati_done

C3_TriggerRecalibration == [][C3Step]_vars

C3_Witness ==
    \E t \in AttrThreads :
        /\ Recalibrating(t)
        /\ pc[t] = "ret"
        /\ res[t] = "OK"
        /\ writes[t] = [calls |-> 1, images |-> 1]

----------------------------------------------------------------------------
\* C4: a thread that is in the critical section of a setter (the
\* read-modify-write of an ATI field, of rx_enable or of hall_enable) or of
\* iqs269_dev_init (from its first register write to ati_current = true)
\* holds the lock, so at most one thread is in such a section.
InCritical(t) ==
    pc[t] \in {"s_write", "di_tws", "di_hall", "di_image", "di_mark"}

----------------------------------------------------------------------------
\* C5: in a decode, the calls for a slider mapped to gesture keys are: the
\* four codes, each pressed or released as its gesture bit says; and, when
\* tap or a flick is set, a sync followed by a release of every code but the
\* one of hold.  So a tap alone gives press then release of the tap code,
\* and a hold alone a press of the hold code and no release.
SliderCalls(i) == SelectSeq(events, LAMBDA e : e[1] = SliderDev(i))

GestureBit(i, j) == (flags.gesture \div (2 ^ (i * IQS269_NUM_GESTURES + j))) % 2

GesturePress(i) ==
    [j \in 1 .. IQS269_NUM_GESTURES |->
        <<SliderDev(i), "key", iqs269.sl_code[i][j - 1], GestureBit(i, j - 1)>>]

GestureRelease(i) ==
    <<<<SliderDev(i), "key", iqs269.sl_code[i][IQS269_GESTURE_TAP], 0>>,
      <<SliderDev(i), "key", iqs269.sl_code[i][IQS269_GESTURE_FLICK_POS], 0>>,
      <<SliderDev(i), "key", iqs269.sl_code[i][IQS269_GESTURE_FLICK_NEG], 0>>>>

GestureMomentary(i) ==
    \/ GestureBit(i, IQS269_GESTURE_TAP) = 1
    \/ GestureBit(i, IQS269_GESTURE_FLICK_POS) = 1
    \/ GestureBit(i, IQS269_GESTURE_FLICK_NEG) = 1

C5_MomentaryGestures ==
    CleanDecoded =>
        \A i \in 0 .. IQS269_NUM_SL - 1 :
            iqs269_slider_type(iqs269, i) = IQS269_SLIDER_KEY =>
                SliderCalls(i) =
                    IF GestureMomentary(i)
                    THEN GesturePress(i) \o <<Sync(SliderDev(i))>>
                           \o GestureRelease(i) \o <<Sync(SliderDev(i))>>
                    ELSE GesturePress(i) \o <<Sync(SliderDev(i))>>

C5_Witness ==
    /\ CleanDecoded
    /\ iqs269_slider_type(iqs269, 0) = IQS269_SLIDER_KEY
    /\ flags.gesture = BIT(IQS269_GESTURE_TAP)
    /\ Len(SliderCalls(0)) = 9

----------------------------------------------------------------------------
\* C6: the cycle of a snapshot with the ATI bit set and the reset bit clear
\* returns 0 at once: no report, no register write, and the gate, the
\* retained state and the device as they were.
C6Step ==
    (HandlerStep /\ AtiSeen(flags')) =>
        /\ pc'["irqt"] = "ret"
        /\ res'["irqt"] = "OK"
        /\ events' = <<>>
        /\ writes' = writes
        /\ iqs269' = iqs269
        /\ dev' = dev
        /\ hist'.arm_clean = hist.arm_clean

C6_AtiInProgress == [][C6Step]_vars

C6_Witness ==
    /\ pc["irqt"] = "ret"
    /\ AtiSeen(flags)
    /\ res["irqt"] = "OK"
    /\ events = <<>>
    /\ ~iqs269.ati_done

----------------------------------------------------------------------------
\* C7: from the return of disable_irq to enable_irq, which covers the count
\* read, the Hall bin read, the rewrite of ati_trigger_store and the writes
\* of suspend and resume with their settle delay, the line is disabled and
\* the handler is not running.
BracketPcs ==
    {"c_read", "hb_read", "t_reinit", "su_write", "re_write", "x_enable"}
      \cup DevInitPcs

----------------------------------------------------------------------------
\* C8: the return of -ETIMEDOUT by ati_trigger_store changes neither the
\* device nor the retained state: the image stays written and the gate
\* armed, until the next clean snapshot is decoded, which releases the gate
\* and makes its calls.
TimedOut ==
    \E t \in AttrThreads :
        Recalibrating(t) /\ pc[t] = "ret" /\ res[t] = "ETIMEDOUT"

C8State ==
    /\ TimedOut => dev.written
    /\ (TimedOut /\ ~hist.arm_clean) => ~iqs269.ati_done
    /\ (TimedOut /\ CleanDecoded) => iqs269.ati_done

C8Step ==
    /\ (\E t \in AttrThreads :
          pc[t] = "t_wait" /\ pc'[t] = "ret" /\ res'[t] = "ETIMEDOUT") =>
          /\ dev' = dev
          /\ iqs269' = iqs269
          /\ ~iqs269'.ati_done
    /\ (DecodeStep /\ TimedOut) => DecodedNormally

C8_TimeoutRetractsNothing == [][C8Step /\ C8State']_vars

C8_Witness ==
    /\ TimedOut
    /\ CleanDecoded
    /\ iqs269.ati_done
    /\ events # <<>>

----------------------------------------------------------------------------
\* C9: when iqs269_parse_prop (iqs269_parse_chan included) rejects a
\* property, probe fails: no register is written, the interrupt is not
\* requested and no input device is registered.
C9_ConfigErrorsFatal ==
    res["probe"] = "EINVAL" =>
        /\ pc["probe"] \in {"p_unwind", "p_failed"}
        /\ ~dev.written
        /\ writes["probe"] = NoWrites
        /\ ~irq.requested
        /\ input = {}

C9_Witness ==
    /\ pc["probe"] = "p_failed"
    /\ res["probe"] = "EINVAL"

----------------------------------------------------------------------------
\* C10: a cycle whose status read fails, or whose slider read fails after a
\* clean snapshot, returns the error: no report, the gate, the retained
\* state and the device as they were; a clean snapshot of a later cycle,
\* the one right after it included, is decoded.
CommFailed(fl, r) == r = "EIO" /\ ~ResetSeen(fl)

C10State ==
    /\ (pc["irqt"] = "ret" /\ CommFailed(flags, res["irqt"])) =>
          /\ events = <<>>
          /\ writes["irqt"] = NoWrites
    /\ (CleanDecoded /\ hist.prev = "fail") => iqs269.ati_done

C10Step ==
    /\ (HandlerStep /\ pc'["irqt"] = "ret"
           /\ CommFailed(flags', res'["irqt"])) =>
          /\ events' = <<>>
          /\ iqs269' = iqs269
          /\ dev' = dev
          /\ hist'.arm_clean = hist.arm_clean
    /\ DecodeStep => DecodedNormally

C10_DecodeCommFailure == [][C10Step /\ C10State']_vars

C10_Witness ==
    /\ CleanDecoded
    /\ hist.prev = "fail"
    /\ events # <<>>

----------------------------------------------------------------------------
\* C11: in a cycle whose snapshot has the reset bit set and whose rewrite
\* fails, iqs269_dev_init is called once and not again, the error is what
\* iqs269_report returns, nothing is reported, and no step of the handler
\* releases the gate or sets ati_current.
RecoveryFailed ==
    pc["irqt"] = "ret" /\ ResetSeen(flags) /\ res["irqt"] # "OK"

C11State ==
    RecoveryFailed =>
        /\ res["irqt"] = "EIO"
        /\ writes["irqt"] = [calls |-> 1, images |-> 0]
        /\ events = <<>>

C11Step ==
    (HandlerStep /\ ResetSeen(flags') /\ res'["irqt"] # "OK") =>
        /\ events' = <<>>
        /\ iqs269'.ati_done = iqs269.ati_done
        /\ iqs269'.ati_current = iqs269.ati_current
        /\ hist'.arm_clean = hist.arm_clean

C11_RecoveryFailure == [][C11Step /\ C11State']_vars

C11_Witness ==
    /\ RecoveryFailed
    /\ ~iqs269.ati_current
    /\ dev.written

----------------------------------------------------------------------------
\* C12: the redo-calibration bit of the general word is set in every image
\* iqs269_dev_init writes: the one of probe, the one of each non-zero
\* ati_trigger_store, and also the one of each reset recovery of the handler.
\* (As worded, without the reset recovery: C12_RedoOnlyOnRequest.)
ImageWrittenBy(t) == pc[t] = "di_image" /\ pc'[t] = "di_mark"

RedoSet(image) ==
    BitAnd(image.general, IQS269_SYS_SETTINGS_REDO_ATI) # 0

C12Step ==
    \A t \in {"probe", "irqt"} \cup AttrThreads :
        ImageWrittenBy(t) =>
            /\ dev'.image = iqs269.sys_reg
            /\ RedoSet(dev'.image)

C12_RedoInEveryImage == [][C12Step]_vars

\* the image of a reset recovery has been written, with the bit set
C12_Witness ==
    /\ pc["irqt"] = "di_mark"
    /\ ResetSeen(flags)
    /\ writes["irqt"].images = 1
    /\ RedoSet(dev.image)

\* C12 as worded: the bit is set in the images of probe and of
\* ati_trigger_store and in no other image written
C12_RedoOnlyOnRequest ==
    [][\A t \in {"probe", "irqt"} \cup AttrThreads :
          ImageWrittenBy(t) => (RedoSet(dev'.image) <=> t # "irqt")]_vars

----------------------------------------------------------------------------
\* C13: every image iqs269_dev_init writes (for probe, for a reset recovery,
\* for ati_trigger_store), whatever the attributes have stored before, has
\* the event-mode bit set, the acknowledge-reset bit set, and its redo-ATI
\* channel mask equal to its active-channel mask.
ForcedFields(image) ==
    /\ BitAnd(image.general, IQS269_SYS_SETTINGS_EVENT_MODE) # 0
    /\ BitAnd(image.general, IQS269_SYS_SETTINGS_ACK_RESET) # 0
    /\ image.redo_ati = image.active

C13Step ==
    \A t \in {"probe", "irqt"} \cup AttrThreads :
        ImageWrittenBy(t) => ForcedFields(dev'.image)

C13_ForcedFields == [][C13Step]_vars

\* the image of a recalibration that follows a stored RX mask
C13_Witness ==
    \E t \in AttrThreads :
        /\ Recalibrating(t)
        /\ pc[t] = "di_mark"
        /\ dev.image.ch_reg[0].rx_enable = IQS269_HALL_PAD_L
        /\ dev.image.active # 0
        /\ ForcedFields(dev.image)


----------------------------------------------------------------------------
(* The register codec on its own: the ATI accessors, iqs269_parse_mask and *)
(* the hysteresis merge of iqs269_parse_chan, applied to register images   *)
(* of varied content.  iqs269_probe fills sys_reg from the device, so the  *)
(* image the codec works on may hold any bits.  op holds the call made,    *)
(* res its return value.                                                   *)

MaxTarget == 2050
MaxListLen == 2
MaxHystWrites == 2

\* register contents found in the image before the call
CodecFills ==
    {[engine_a |-> 0, engine_b |-> 0, hyst |-> 0, mask |-> 0],
     [engine_a |-> 65535, engine_b |-> 65535, hyst |-> 255, mask |-> 255],
     [engine_a |-> 23130, engine_b |-> 42405, hyst |-> 165, mask |-> 90],
     [engine_a |-> 42405, engine_b |-> 23130, hyst |-> 90, mask |-> 165]}

CodecPrivate(f, current) ==
    [ZeroPrivate EXCEPT
       !.ati_current = current,
       !.sys_reg.ch_reg =
          [c \in Channels |->
             [ZeroChReg EXCEPT !.engine_a = f.engine_a,
                               !.engine_b = f.engine_b,
                               !.hyst = f.hyst,
                               !.rx_enable = f.mask,
                               !.tx_enable = f.mask,
                               !.assoc_select = f.mask]]]

\* arguments of the calls: channel 8 and index 8 are the first invalid ones
CodecChans == 0 .. IQS269_NUM_CH
ShortLists == UNION {[1 .. n -> 0 .. IQS269_NUM_CH] : n \in 0 .. MaxListLen}
LongLists ==
    {<<0, 1, 2, 3, 4, 5, 6, 7>>, <<7, 7, 3, 3, 7, 3, 7, 3>>,
     <<0, 1, 2, 3, 4, 5, 6, 8>>, <<1, 2, 8>>, <<4, 9, 2>>,
     <<0, 1, 2, 3, 4, 5, 6, 7, 0>>, <<1, 1, 1, 1, 1, 1, 1, 1, 1>>}
PinLists == ShortLists \cup LongLists
MaskFields == {"rx_enable", "tx_enable", "assoc_select"}

CodecInit ==
    /\ iqs269 \in {CodecPrivate(f, current) :
                     f \in CodecFills, current \in BOOLEAN}
    /\ dev = [otp |-> 0, fw_num |-> 0, hall_ui |-> FALSE,
              image |-> ZeroSysReg, general |-> 0, written |-> FALSE]
    /\ irq = [requested |-> FALSE, depth |-> 0]
    /\ input = {}
    /\ pc = [t \in Threads |-> "idle"]
    /\ op = [t \in Threads |-> NoOp]
    /\ res = [t \in Threads |-> "none"]
    /\ flags = NoFlags
    /\ events = <<>>
    /\ writes = [t \in Threads |-> NoWrites]
    /\ hist = [ops |-> 0, max |-> MaxOps, arm_clean |-> FALSE, prev |-> "other",
               last |-> [image |-> ZeroSysReg, hall |-> FALSE]]
    /\ suspended = FALSE

\* no call has been made on the image drawn by CodecInit
CodecFresh ==
    /\ pc["a1"] = "idle" /\ pc["probe"] = "idle"
    /\ hist.ops = 0

\* one call on the fresh image, r being what it returns
CodecCall(t, name, ch, val, r) ==
    /\ iqs269' = r.s
    /\ op' = [op EXCEPT ![t] = [name |-> name, ch |-> ch, val |-> val]]
    /\ res' = [res EXCEPT ![t] = r.err]
    /\ Goto(t, "ret")
    /\ UNCHANGED <<dev, irq, input, flags, events, writes, hist, suspended>>

CodecTargetSet ==
    /\ CodecFresh
    /\ \E ch \in CodecChans, target \in 0 .. MaxTarget :
        CodecCall("a1", "ati_target", ch, target,
                  iqs269_ati_target_set(iqs269, ch, target))

CodecBaseSet ==
    /\ CodecFresh
    /\ \E ch \in CodecChans,
          base \in {0, 74, 75, 76, 100, 150, 151, 200, 201} :
        CodecCall("a1", "ati_base", ch, base,
                  iqs269_ati_base_set(iqs269, ch, base))

CodecModeSet ==
    /\ CodecFresh
    /\ \E ch \in CodecChans, mode \in 0 .. IQS269_CHx_ENG_A_ATI_MODE_MAX + 1 :
        CodecCall("a1", "ati_mode", ch, mode,
                  iqs269_ati_mode_set(iqs269, ch, mode))

\* one of the iqs269_parse_mask calls of iqs269_parse_chan
CodecParseMask ==
    /\ CodecFresh
    /\ \E reg \in Channels, field \in MaskFields, list \in PinLists :
        CodecCall("probe", field, reg, list,
                  ChanMask([err |-> "OK", s |-> iqs269], <<list>>, reg, field))

\* "azoteq,hyst" of event i on channel reg; a refused value ends the parse.
\* hist.prev keeps the call made before this one.
CodecHyst ==
    /\ pc["a1"] = "idle" /\ pc["probe"] \in {"idle", "p_parse"}
    /\ hist.ops < MaxHystWrites
    /\ res["probe"] \in {"none", "OK"}
    /\ \E reg \in {0, IQS269_NUM_CH - 1}, i \in 0 .. NUM_EVENTS - 1,
          val \in 0 .. IQS269_CHx_HYST_MAX + 1 :
        LET r == EventHyst([err |-> "OK", s |-> iqs269], reg, i,
                           [EventNode EXCEPT !.hyst = <<val>>])
        IN  /\ iqs269' = r.s
            /\ op' = [op EXCEPT !["probe"] =
                        [name |-> "hyst", ch |-> reg, val |-> <<i, val>>]]
            /\ res' = [res EXCEPT !["probe"] = r.err]
            /\ hist' = [hist EXCEPT !.ops = @ + 1, !.prev = op["probe"]]
            /\ Goto("probe", "p_parse")
            /\ UNCHANGED <<dev, irq, input, flags, events, writes, suspended>>

\* one call of a setter or of iqs269_parse_mask on an image
CodecNext ==
    \/ CodecTargetSet
    \/ CodecBaseSet
    \/ CodecModeSet
    \/ CodecParseMask

SpecCodec == CodecInit /\ [][CodecNext]_vars

\* up to MaxHystWrites hysteresis properties parsed into an image
SpecHyst == CodecInit /\ [][CodecHyst]_vars

----------------------------------------------------------------------------
\* C14: for every channel below 8 and every target up to 2016,
\* iqs269_ati_target_set succeeds and iqs269_ati_target_get then returns
\* target - (target mod 32), which is the target set exactly when the
\* target is a multiple of 32.
TargetWasSet ==
    /\ pc["a1"] = "ret"
    /\ op["a1"].name = "ati_target"
    /\ op["a1"].ch < IQS269_NUM_CH
    /\ op["a1"].val <= IQS269_CHx_ENG_B_ATI_TARGET_MAX

C14_TargetRoundTrip ==
    TargetWasSet =>
        LET target == op["a1"].val
            got == iqs269_ati_target_get(iqs269, op["a1"].ch)
        IN  /\ res["a1"] = "OK"
            /\ got.err = "OK"
            /\ got.val = target - (target % 32)
            /\ (got.val = target) <=> (target % 32 = 0)

C14_Witness ==
    /\ TargetWasSet
    /\ op["a1"].val = 1000
    /\ iqs269_ati_target_get(iqs269, op["a1"].ch).val = 992
    /\ iqs269.sys_reg.ch_reg[op["a1"].ch].engine_b = 65535 - 63 + 31


----------------------------------------------------------------------------
\* C15: for every channel below 8, iqs269_ati_base_set of 75, 100, 150 or
\* 200 succeeds and iqs269_ati_base_get then returns that base; any other
\* base is refused with -EINVAL; and iqs269_ati_base_get succeeds with one
\* of the four values on every register content.
ValidBases == {75, 100, 150, 200}

BaseWasSet ==
    /\ pc["a1"] = "ret"
    /\ op["a1"].name = "ati_base"
    /\ op["a1"].ch < IQS269_NUM_CH

C15_BaseRoundTrip ==
    /\ BaseWasSet =>
          IF op["a1"].val \in ValidBases
          THEN /\ res["a1"] = "OK"
               /\ iqs269_ati_base_get(iqs269, op["a1"].ch) =
                     [err |-> "OK", val |-> op["a1"].val]
          ELSE res["a1"] = "EINVAL"
    /\ \A c \in Channels :
          /\ iqs269_ati_base_get(iqs269, c).err = "OK"
          /\ iqs269_ati_base_get(iqs269, c).val \in ValidBases

C15_Witness ==
    /\ BaseWasSet
    /\ op["a1"].val = 150
    /\ iqs269_ati_base_get(iqs269, op["a1"].ch).val = 150
    /\ iqs269.sys_reg.ch_reg[op["a1"].ch].engine_b = 65535 - 64
    /\ \E c \in Channels : iqs269_ati_base_get(iqs269, c).val = 200


----------------------------------------------------------------------------
\* C16: an ATI setter called with a channel index of 8 or more, a mode
\* above 3, a target above 2016 or a base outside {75, 100, 150, 200}
\* returns an error and leaves the register image and ati_current as they
\* were.
SetterStep == pc["a1"] = "idle" /\ pc'["a1"] = "ret"

BadSetterCall(o) ==
    \/ o.ch >= IQS269_NUM_CH
    \/ o.name = "ati_mode" /\ o.val > IQS269_CHx_ENG_A_ATI_MODE_MAX
    \/ o.name = "ati_target" /\ o.val > IQS269_CHx_ENG_B_ATI_TARGET_MAX
    \/ o.name = "ati_base" /\ o.val \notin ValidBases

C16Step ==
    (SetterStep /\ BadSetterCall(op'["a1"])) =>
        /\ res'["a1"] = "EINVAL"
        /\ iqs269'.sys_reg = iqs269.sys_reg
        /\ iqs269'.ati_current = iqs269.ati_current

C16_SetterRejection == [][C16Step]_vars

C16_Witness ==
    /\ pc["a1"] = "ret"
    /\ op["a1"] = [name |-> "ati_mode", ch |-> 3, val |-> 4]
    /\ res["a1"] = "EINVAL"
    /\ iqs269.ati_current
    /\ iqs269.sys_reg.ch_reg[3].engine_a = 65535


----------------------------------------------------------------------------
\* C17: for every pin-index list of at most 8 entries, all below 8
\* (duplicates allowed), iqs269_parse_mask succeeds and the mask byte is the
\* bitwise OR of BIT(index) over the list; a list with an index of 8 or
\* more, or with more than 8 entries, is refused.
MaskWasParsed ==
    /\ pc["probe"] = "ret"
    /\ op["probe"].name \in MaskFields

ParsedMask == iqs269.sys_reg.ch_reg[op["probe"].ch][op["probe"].name]

ValidList(list) ==
    /\ Len(list) <= IQS269_NUM_CH
    /\ \A i \in 1 .. Len(list) : list[i] < IQS269_NUM_CH

\* m is the OR of BIT(list[i]) over the entries 1 .. n of list
IsOrOfBits(m, list, n) ==
    /\ m \in 0 .. 255
    /\ \A k \in 0 .. 7 : TestBit(m, k) <=> \E i \in 1 .. n : list[i] = k

C17_MaskEncoding ==
    MaskWasParsed =>
        IF ValidList(op["probe"].val)
        THEN /\ res["probe"] = "OK"
             /\ IsOrOfBits(ParsedMask, op["probe"].val, Len(op["probe"].val))
        ELSE res["probe"] = "EINVAL"

C17_Witness ==
    /\ MaskWasParsed
    /\ op["probe"].val = <<7, 7, 3, 3, 7, 3, 7, 3>>
    /\ op["probe"].name = "tx_enable"
    /\ res["probe"] = "OK"
    /\ ParsedMask = 136
    /\ iqs269.sys_reg.ch_reg[op["probe"].ch].rx_enable = 90

----------------------------------------------------------------------------
\* C18: a call whose validation fails leaves the register image as it was,
\* except that iqs269_parse_mask, given a list of at most 8 entries in
\* which an invalid index follows valid ones, leaves in the mask byte the
\* OR of BIT(index) over the entries before the first invalid one (zero if
\* the first entry is invalid) and not the byte's previous value.  A list of
\* more than 8 entries, a refused ATI setter call and a refused hysteresis
\* leave the image unchanged.
\* thread t made a call in this step
CallStep(t) ==
    \/ pc[t] = "idle" /\ pc'[t] = "ret"
    \/ pc'[t] = "p_parse" /\ hist'.ops # hist.ops

FailedStep(t) == CallStep(t) /\ res'[t] # "OK"

RECURSIVE ValidPrefix(_, _)
ValidPrefix(list, i) ==
    IF i > Len(list) \/ list[i] >= IQS269_NUM_CH THEN i - 1
    ELSE ValidPrefix(list, i + 1)

PartialList(o) == o.name \in MaskFields /\ Len(o.val) <= IQS269_NUM_CH

C18Step ==
    \A t \in {"a1", "probe"} :
        FailedStep(t) =>
            LET o == op'[t]
            IN  IF PartialList(o)
                THEN /\ IsOrOfBits(iqs269'.sys_reg.ch_reg[o.ch][o.name],
                                   o.val, ValidPrefix(o.val, 1))
                     /\ iqs269' =
                           SetCh(iqs269, o.ch, o.name,
                                 iqs269'.sys_reg.ch_reg[o.ch][o.name])
                ELSE iqs269' = iqs269

----------------------------------------------------------------------------
\* C19: a touch hysteresis V and a deep-touch hysteresis W (0..15) written
\* to a channel in either order leave a byte whose low nibble is V and
\* whose high nibble is W: each write replaces its own nibble and keeps the
\* other; a proximity event's hysteresis leaves the byte unchanged.
HystKind(i) ==
    IF i = IQS269_EVENT_TOUCH_DN \/ i = IQS269_EVENT_TOUCH_UP THEN "touch"
    ELSE IF i = IQS269_EVENT_DEEP_DN \/ i = IQS269_EVENT_DEEP_UP THEN "deep"
    ELSE "prox"

HystWritten ==
    /\ CallStep("probe")
    /\ op'["probe"].name = "hyst"
    /\ res'["probe"] = "OK"

C19Step ==
    HystWritten =>
        LET o == op'["probe"]
            old == iqs269.sys_reg.ch_reg[o.ch].hyst
            new == iqs269'.sys_reg.ch_reg[o.ch].hyst
            kind == HystKind(o.val[1])
        IN  /\ kind = "touch" => new % 16 = o.val[2] /\ new \div 16 = old \div 16
            /\ kind = "deep" => new \div 16 = o.val[2] /\ new % 16 = old % 16
            /\ kind = "prox" => new = old

\* the two writes made were a touch and a deep-touch hysteresis of one channel
TouchAndDeepWritten ==
    /\ hist.ops = 2
    /\ res["probe"] = "OK"
    /\ hist.prev.ch = op["probe"].ch
    /\ {HystKind(hist.prev.val[1]), HystKind(op["probe"].val[1])} =
          {"touch", "deep"}

C19State ==
    TouchAndDeepWritten =>
        LET first == hist.prev.val
            last == op["probe"].val
            V == IF HystKind(first[1]) = "touch" THEN first[2] ELSE last[2]
            W == IF HystKind(first[1]) = "deep" THEN first[2] ELSE last[2]
        IN  iqs269.sys_reg.ch_reg[op["probe"].ch].hyst = W * 16 + V

C19_HystMerge == [][C19Step /\ C19State']_vars

C19_Witness ==
    /\ TouchAndDeepWritten
    /\ hist.prev.val = <<IQS269_EVENT_DEEP_UP, 9>>
    /\ op["probe"].val = <<IQS269_EVENT_TOUCH_DN, 5>>
    /\ iqs269.sys_reg.ch_reg[op["probe"].ch].hyst = 149
    /\ iqs269.sys_reg.ch_reg[op["probe"].ch].rx_enable = 255


----------------------------------------------------------------------------
(* The decode on its own: a device that was probed with one of several     *)
(* keypad configurations, and a handler that is handed status snapshots    *)
(* whose state bytes and direction byte vary independently.                *)

\* only channel 2, its proximity-down event mapped to KEY_1, threshold 10
NodeK1Only ==
    [DevNode EXCEPT
       !.channels =
          <<[ChanNode(2) EXCEPT
               !.events[IQS269_EVENT_PROX_DN] =
                  <<[EventNode EXCEPT !.thresh = <<10>>, !.code = <<2>>]>>]>>]

\* channels 2, 5 and 7 with a code of their own for each of the six events
NodeKeys ==
    [DevNode EXCEPT
       !.channels =
          [k \in 1 .. 3 |->
             LET reg == <<2, 5, 7>>[k]
             IN  [ChanNode(reg) EXCEPT
                    !.events = [i \in 0 .. NUM_EVENTS - 1 |->
                                  <<[EventNode EXCEPT
                                       !.code = <<10 + 8 * i + reg>>]>>]]]]

\* the slider node is also taken without gesture codes (both sliders raw);
\* the last node is in Hall mode, with codes for every event of channel 6
\* and for two events of channel 7
DecodeNodes ==
    {NodeK1Only, NodeKeys, [NodeKeys EXCEPT !.hall_enable = TRUE], NodeSliders,
     [NodeSliders EXCEPT !.keycodes = <<>>],
     [DevNode EXCEPT
        !.hall_enable = TRUE,
        !.channels =
           <<[ChanNode(2) EXCEPT
                !.events[IQS269_EVENT_TOUCH_DN] =
                   <<[EventNode EXCEPT !.code = <<2>>]>>],
             [ChanNode(6) EXCEPT
                !.events = [i \in 0 .. NUM_EVENTS - 1 |->
                              <<[EventNode EXCEPT !.code = <<60 + i>>]>>]],
             [ChanNode(7) EXCEPT
                !.events[IQS269_EVENT_PROX_DN] =
                   <<[EventNode EXCEPT !.code = <<5>>]>>,
                !.events[IQS269_EVENT_TOUCH_UP] =
                   <<[EventNode EXCEPT !.code = <<6>>]>>]>>]}

\* the private data after a probe that succeeded with the node
DecodePrivate(node) ==
    LET s0 == [ZeroPrivate EXCEPT !.otp_option = IQS269_OTP_OPTION_DEFAULT,
                                  !.fw_num = IQS269_VER_INFO_FW_NUM_3]
    IN  [iqs269_parse_prop(s0, node, ZeroSysReg, TRUE).s
           EXCEPT !.ati_done = TRUE, !.ati_current = TRUE]

StateBytes == {0, 4, 6, 132, 255}

DecodeSnapshots ==
    {[read |-> TRUE, system |-> 0, gesture |-> 0, states |-> st] :
        st \in [0 .. 3 -> StateBytes]}

\* the device as the probe left it, or after hall_enable_store has changed
\* hall_enable (which marks the configuration stale)
DecodeInit ==
    /\ iqs269 \in {DecodePrivate(node) : node \in DecodeNodes} \cup
                   {[DecodePrivate(node) EXCEPT !.hall_enable = ~@,
                                                !.ati_current = FALSE] :
                      node \in DecodeNodes}
    /\ dev = [otp |-> IQS269_OTP_OPTION_DEFAULT,
              fw_num |-> IQS269_VER_INFO_FW_NUM_3,
              hall_ui |-> (iqs269.hall_enable <=> iqs269.ati_current),
              image |-> iqs269.sys_reg,
              general |-> iqs269.sys_reg.general, written |-> TRUE]
    /\ irq = [requested |-> TRUE, depth |-> 0]
    /\ input = {"keypad"} \cup
                 {SliderDev(i) : i \in {n \in 0 .. IQS269_NUM_SL - 1 :
                     iqs269_slider_type(iqs269, n) # IQS269_SLIDER_NONE}}
    /\ pc = [t \in Threads |-> IF t = "probe" THEN "p_done" ELSE "idle"]
    /\ op = [t \in Threads |-> NoOp]
    /\ res = [t \in Threads |-> IF t = "probe" THEN "OK" ELSE "none"]
    /\ flags = NoFlags
    /\ events = <<>>
    /\ writes = [t \in Threads |-> NoWrites]
    /\ hist = [ops |-> 0, max |-> MaxOps, arm_clean |-> TRUE, prev |-> "other",
               last |-> [image |-> dev.image, hall |-> dev.hall_ui]]
    /\ suspended = FALSE

\* lines 1329-1354 on a snapshot without the reset and ATI flags
DecodeRead ==
    /\ pc["irqt"] = "idle"
    /\ irq.requested
    /\ irq.depth = 0
    /\ \E snap \in DecodeSnapshots :
          /\ ReportBranch(snap.system) = "decode"
          /\ flags' = snap
    /\ Goto("irqt", "h_decode")
    /\ UNCHANGED <<iqs269, dev, irq, input, op, res, events, writes, hist,
                   suspended>>

DecodeNext == DecodeRead \/ IrqDecode \/ IrqReturn

SpecDecode == DecodeInit /\ [][DecodeNext]_vars

----------------------------------------------------------------------------
\* C20: in a clean decode, for each of the six events e and each ordinary
\* channel c, the input_report_key call for (e, c) carries the code mapped
\* to (e, c) and is a press exactly when c's bit is set in e's state byte
\* and c's direction bit matches e (clear for a down event, set for an up
\* event).  With only channel 2's proximity-down event mapped (to KEY_1) and
\* a snapshot with only channel 2's proximity bit and no direction bit, the
\* calls hold exactly one press, that of KEY_1.
KeypadKeyCalls ==
    SelectSeq(events, LAMBDA r : r[1] = "keypad" /\ r[2] = "key")

\* the channels reported as keys: all but the two Hall channels in Hall mode
OrdinaryChans ==
    IF iqs269.hall_enable
    THEN Channels \ {IQS269_CHx_HALL_ACTIVE, IQS269_CHx_HALL_INACTIVE}
    ELSE Channels

EventPressed(fl, e, c) ==
    /\ TestBit(fl.states[iqs269_events[e].st_offs], c)
    /\ TestBit(fl.states[IQS269_ST_OFFS_DIR], c) <=> iqs269_events[e].dir_up

Presses == {k \in 1 .. Len(events) : events[k][2] # "sync" /\ events[k][4] # 0}

OnlyChannel2Prox ==
    /\ iqs269 = DecodePrivate(NodeK1Only)
    /\ flags.states = [k \in 0 .. 3 |-> IF k = IQS269_ST_OFFS_PROX THEN 4 ELSE 0]

C20_DecodePolarity ==
    CleanDecoded =>
        LET n == Cardinality(OrdinaryChans)
        IN  /\ Len(KeypadKeyCalls) = NUM_EVENTS * n
            /\ \A e \in 0 .. NUM_EVENTS - 1 : \A c \in OrdinaryChans :
                  KeypadKeyCalls[e * n + c + 1] =
                     <<"keypad", "key", iqs269.keycode[e * IQS269_NUM_CH + c],
                       IF EventPressed(flags, e, c) THEN 1 ELSE 0>>
            /\ OnlyChannel2Prox =>
                  /\ Cardinality(Presses) = 1
                  /\ \A k \in Presses : events[k] = <<"keypad", "key", 2, 1>>

C20_Witness ==
    /\ CleanDecoded
    /\ OnlyChannel2Prox
    /\ iqs269.keycode[IQS269_EVENT_PROX_DN * IQS269_NUM_CH + 2] = 2
    /\ iqs269.sys_reg.ch_reg[2].thresh[IQS269_TH_OFFS_PROX] = 10
    /\ \E k \in 1 .. Len(events) : events[k] = <<"keypad", "key", 2, 1>>


----------------------------------------------------------------------------
(* The bound driver with the handler, the setters and ati_trigger_store    *)
(* only, for what must eventually happen.                                  *)

\* the driver as a successful probe of the default device left it
LiveInit ==
    /\ iqs269 = DecodePrivate(NodeK1Only)
    /\ dev = [otp |-> IQS269_OTP_OPTION_DEFAULT,
              fw_num |-> IQS269_VER_INFO_FW_NUM_3,
              hall_ui |-> FALSE,
              image |-> iqs269.sys_reg,
              general |-> iqs269.sys_reg.general, written |-> TRUE]
    /\ irq = [requested |-> TRUE, depth |-> 0]
    /\ input = {"keypad"}
    /\ pc = [t \in Threads |-> IF t = "probe" THEN "p_done" ELSE "idle"]
    /\ op = [t \in Threads |-> NoOp]
    /\ res = [t \in Threads |-> IF t = "probe" THEN "OK" ELSE "none"]
    /\ flags = NoFlags
    /\ events = <<>>
    /\ writes = [t \in Threads |-> NoWrites]
    /\ hist = [ops |-> 0, max |-> MaxOps, arm_clean |-> TRUE, prev |-> "other",
               last |-> [image |-> dev.image, hall |-> dev.hall_ui]]
    /\ suspended = FALSE

\* the steps by which thread t goes on with what it has entered: all but
\* the arrival of an interrupt and the entry of a callback
Continue(t) ==
    \/ DevInitLock(t) \/ DevInitHall(t) \/ DevInitImage(t) \/ DevInitMark(t)
    \/ t = "irqt" /\ (IrqDecode \/ IrqReturn)
    \/ /\ t \in AttrThreads
       /\ \/ SetterLock(t) \/ SetterWrite(t) \/ TriggerReinit(t)
          \/ TriggerWaitDone(t) \/ TriggerWaitTimeout(t)
          \/ IrqDisable(t) \/ IrqSync(t) \/ IrqEnable(t)

LiveNext ==
    \/ IrqRead
    \/ \E t \in AttrThreads :
          AtiStore(t) \/ HallEnableStore(t) \/ AtiTriggerStore(t)
    \/ \E t \in {"irqt"} \cup AttrThreads : Continue(t)

\* The scheduler runs every thread that can go on, bus transfers return and
\* wait_for_completion_timeout returns with the gate or after its timeout
\* (weak fairness); a thread sleeping in mutex_lock gets the lock handed
\* over after a bounded number of other owners (strong fairness).
LiveSpec ==
    /\ LiveInit
    /\ [][LiveNext]_vars
    /\ \A t \in {"irqt"} \cup AttrThreads :
          /\ WF_vars(Continue(t))
          /\ SF_vars(SetterLock(t) \/ DevInitLock(t))

\* The driver bound to the device of LiveInit: the handler, the attributes
\* of two user threads and the PM callbacks, in a session of MaxOps
\* callbacks (no fairness).  The device has the default OTP option, so
\* iqs269_dev_init has no TWS write.
ProbedNext ==
    \/ Handler
    \/ \E t \in {"irqt"} \cup AttrThreads :
          DevInitLock(t) \/ DevInitHall(t) \/ DevInitImage(t) \/ DevInitMark(t)
    \/ \E t \in AttrThreads : Attr(t)
    \/ \E t \in AttrThreads \cup {"pm"} : Bracket(t)
    \/ Pm

SpecProbed == LiveInit /\ [][ProbedNext]_vars

----------------------------------------------------------------------------
\* C21: in a clean decode with Hall mode enabled, the key calls are those of
\* channels 0..5 only, and the switch calls are one per event that was given
\* a code on channel 7 (when the node was parsed in Hall mode), with that
\* code and the state of channel 7's bit; the codes such a node gives to
\* channels 6 and 7 are in no key slot.  With Hall mode
\* disabled, channels 6 and 7 get key calls like any other channel and there
\* is no switch call.
SwitchCalls == SelectSeq(events, LAMBDA r : r[2] = "sw")

\* the events that the node gives a "linux,code" on the active Hall channel
SwitchEvents(node) ==
    {e \in 0 .. NUM_EVENTS - 1 :
       \E k \in 1 .. Len(node.channels) :
          /\ Val(node.channels[k].reg) = IQS269_CHx_HALL_ACTIVE
          /\ Has(node.channels[k].events[e])
          /\ Has(Val(node.channels[k].events[e]).code)}

\* the events up to e whose switch is enabled
EnabledUpTo(e) == {d \in 0 .. e : iqs269.switches[d].enabled}

HallDecoded ==
    /\ Len(KeypadKeyCalls) = NUM_EVENTS * (IQS269_NUM_CH - 2)
    /\ \A e \in 0 .. NUM_EVENTS - 1 : \A c \in 0 .. IQS269_NUM_CH - 3 :
          KeypadKeyCalls[e * (IQS269_NUM_CH - 2) + c + 1][3] =
             iqs269.keycode[e * IQS269_NUM_CH + c]
    /\ Len(SwitchCalls) = Cardinality(EnabledUpTo(NUM_EVENTS - 1))
    /\ \A e \in EnabledUpTo(NUM_EVENTS - 1) :
          SwitchCalls[Cardinality(EnabledUpTo(e))] =
             <<"keypad", "sw", iqs269.switches[e].code,
               IF EventPressed(flags, e, IQS269_CHx_HALL_ACTIVE) THEN 1 ELSE 0>>
    /\ \A node \in DecodeNodes :
          iqs269 = DecodePrivate(node) =>
             /\ EnabledUpTo(NUM_EVENTS - 1) = SwitchEvents(node)
             /\ \A e \in 0 .. NUM_EVENTS - 1 :
                   \A c \in {IQS269_CHx_HALL_INACTIVE, IQS269_CHx_HALL_ACTIVE} :
                      iqs269.keycode[e * IQS269_NUM_CH + c] = KEY_RESERVED

PlainDecoded ==
    /\ SwitchCalls = <<>>
    /\ Len(KeypadKeyCalls) = NUM_EVENTS * IQS269_NUM_CH
    /\ \A e \in 0 .. NUM_EVENTS - 1 :
          \A c \in {IQS269_CHx_HALL_INACTIVE, IQS269_CHx_HALL_ACTIVE} :
             KeypadKeyCalls[e * IQS269_NUM_CH + c + 1] =
                <<"keypad", "key", iqs269.keycode[e * IQS269_NUM_CH + c],
                  IF EventPressed(flags, e, c) THEN 1 ELSE 0>>

C21_HallPair ==
    CleanDecoded => IF iqs269.hall_enable THEN HallDecoded ELSE PlainDecoded

C21_Witness ==
    /\ CleanDecoded
    /\ iqs269.hall_enable
    /\ EnabledUpTo(NUM_EVENTS - 1) = {IQS269_EVENT_PROX_DN, IQS269_EVENT_TOUCH_UP}
    /\ flags.states = [k \in 0 .. 3 |-> IF k = IQS269_ST_OFFS_DEEP THEN 0 ELSE 255]
    /\ SwitchCalls = <<<<"keypad", "sw", 5, 0>>, <<"keypad", "sw", 6, 1>>>>


----------------------------------------------------------------------------
\* C22: in a clean decode, a slider in raw-position mode gets BTN_TOUCH with
\* value 1 exactly when the touch-state byte and the slider's channel
\* selection have a bit in common, followed by its coordinate (ABS_X) if
\* and only if the touch is reported, and then by the slider's sync.
SliderTouched(i) ==
    \E c \in Channels :
       /\ TestBit(flags.states[IQS269_ST_OFFS_TOUCH], c)
       /\ TestBit(iqs269.sys_reg.slider_select[i], c)

RawDecoded(i) ==
    IF SliderTouched(i)
    THEN \E x \in SliderXs :
            SliderCalls(i) = <<<<SliderDev(i), "key", BTN_TOUCH, 1>>,
                               <<SliderDev(i), "abs", ABS_X, x[i]>>,
                               Sync(SliderDev(i))>>
    ELSE SliderCalls(i) = <<<<SliderDev(i), "key", BTN_TOUCH, 0>>,
                            Sync(SliderDev(i))>>

C22_RawSlider ==
    CleanDecoded =>
        \A i \in 0 .. IQS269_NUM_SL - 1 :
           iqs269_slider_type(iqs269, i) = IQS269_SLIDER_RAW => RawDecoded(i)

C22_Witness ==
    /\ CleanDecoded
    /\ iqs269_slider_type(iqs269, 0) = IQS269_SLIDER_RAW
    /\ iqs269_slider_type(iqs269, 1) = IQS269_SLIDER_RAW
    /\ flags.states[IQS269_ST_OFFS_TOUCH] = 6
    /\ SliderCalls(0) = <<<<"slider0", "key", BTN_TOUCH, 0>>, Sync("slider0")>>
    /\ SliderCalls(1) = <<<<"slider1", "key", BTN_TOUCH, 1>>,
                          <<"slider1", "abs", ABS_X, 101>>, Sync("slider1")>>


----------------------------------------------------------------------------
\* C23: counts_show entered while the configuration is stale or Hall mode
\* is enabled returns -EPERM, and entered while the gate is armed returns
\* -EBUSY; it then returns at once: no register is read, the interrupt line
\* is not disabled, and the retained state, the gate and the device are as
\* they were.

\* the step is the entry of user thread t into an attribute callback
AttrEnters(t) ==
    /\ hist'.ops = hist.ops + 1
    /\ pc["pm"] = "idle" /\ pc'["pm"] = "idle"
    /\ pc[t] \in {"idle", "ret"}
    /\ t = "a2" => pc["a1"] \notin {"idle", "ret"}

C23Step ==
    \A t \in AttrThreads :
        (AttrEnters(t) /\ op'[t].name = "counts") =>
            /\ (~iqs269.ati_current \/ iqs269.hall_enable) =>
                  pc'[t] = "ret" /\ res'[t] = "EPERM"
            /\ (iqs269.ati_current /\ ~iqs269.hall_enable /\ ~iqs269.ati_done) =>
                  pc'[t] = "ret" /\ res'[t] = "EBUSY"
            /\ pc'[t] = "ret" =>
                  /\ res'[t] \in {"EPERM", "EBUSY"}
                  /\ iqs269' = iqs269
                  /\ dev' = dev
                  /\ irq' = irq
                  /\ writes'[t] = NoWrites
                  /\ events' = events

C23_CountsRefused == [][C23Step]_vars

C23_Witness ==
    /\ pc["a2"] = "ret"
    /\ op["a2"].name = "counts"
    /\ res["a2"] = "EBUSY"
    /\ iqs269.ati_current
    /\ ~iqs269.ati_done
    /\ irq.depth = 0


----------------------------------------------------------------------------
\* C24: iqs269_probe registers the keypad only with the gate released, that
\* is after the handler has decoded a clean snapshot and made its reports;
\* if the wait on the gate times out the probe fails with -ETIMEDOUT and the
\* keypad is never registered.
KeypadRegistered == "keypad" \in input

C24State ==
    /\ KeypadRegistered => pc["probe"] = "p_done" /\ res["probe"] = "OK"
    /\ pc["probe"] = "p_keypad" => iqs269.ati_done /\ hist.arm_clean
    /\ res["probe"] = "ETIMEDOUT" =>
          /\ pc["probe"] \in {"p_unwind", "p_failed"}
          /\ ~KeypadRegistered

C24Step ==
    /\ (~KeypadRegistered /\ KeypadRegistered') =>
          /\ pc["probe"] = "p_keypad"
          /\ iqs269.ati_done
          /\ hist.arm_clean
    /\ (pc["probe"] = "p_wait" /\ pc'["probe"] = "p_unwind") =>
          /\ ~iqs269.ati_done
          /\ res'["probe"] = "ETIMEDOUT"

C24_KeypadAfterGate == [][C24Step /\ C24State']_vars

C24_Witness ==
    /\ KeypadRegistered
    /\ pc["probe"] = "p_done"
    /\ pc["irqt"] = "ret"
    /\ CleanSeen(flags)
    /\ events # <<>>
    /\ hist.ops = 0


----------------------------------------------------------------------------
\* C25: ati_trigger_show prints 1 exactly when, at the read, ati_current is
\* set and the gate is released, and 0 otherwise, so 0 from the moment a
\* setter clears ati_current or ati_trigger_store re-arms the gate.  The
\* handler's reset recovery rewrites the image without re-arming the gate,
\* so 1 can be printed while that rewrite's calibration has not yet been
\* followed by a clean decode.
TriggerShown(t) == AttrEnters(t) /\ op'[t].name = "ati_trigger_show"

\* the handler's reset recovery has written the image in the current cycle
RecoveryRewritten ==
    /\ pc["irqt"] \in {"di_mark", "ret"}
    /\ ResetSeen(flags)
    /\ writes["irqt"].images = 1

C25Step ==
    \A t \in AttrThreads :
        TriggerShown(t) =>
            /\ pc'[t] = "ret" /\ res'[t] = "OK"
            /\ op'[t].val \in {0, 1}
            /\ op'[t].val = 1 <=> (iqs269.ati_current /\ iqs269.ati_done)
            /\ iqs269' = iqs269

C25_TriggerShow == [][C25Step]_vars

C25_Witness ==
    \E t \in AttrThreads :
        /\ pc[t] = "ret"
        /\ op[t].name = "ati_trigger_show"
        /\ op[t].val = 1
        /\ pc["irqt"] = "ret"
        /\ RecoveryRewritten
        /\ res["irqt"] = "OK"

\* C25 as stated: 1 is printed only if, besides, no rewrite has been issued
\* since the last clean decode
C25_ReadyAndIdle ==
    [][\A t \in AttrThreads :
          (TriggerShown(t) /\ op'[t].val = 1) =>
             /\ iqs269.ati_current
             /\ iqs269.ati_done
             /\ ~RecoveryRewritten]_vars


----------------------------------------------------------------------------
\* C26: the lock is taken only by a setter for its read-modify-write and by
\* iqs269_dev_init, and is held by a thread exactly while it is in one of
\* these.  ch_number_store, counts_show, ati_trigger_show, the decode of a
\* snapshot, iqs269_suspend and iqs269_resume read or write the private data
\* without taking it, also while another thread holds it.
LockedPcs == {"s_write", "di_tws", "di_hall", "di_image", "di_mark"}

UnlockedAttrs == {"ch_number", "counts", "ati_trigger_show"}

C26State ==
    \A t \in Threads : iqs269.lock = t <=> pc[t] \in LockedPcs

C26Step ==
    /\ \A t \in AttrThreads :
          (AttrEnters(t) /\ op'[t].name \in UnlockedAttrs) =>
             /\ iqs269.lock # t
             /\ iqs269'.lock = iqs269.lock
    /\ \A t \in AttrThreads :
          (pc[t] = "c_read" /\ pc'[t] # "c_read") =>
             iqs269.lock # t /\ iqs269'.lock = iqs269.lock
    /\ (pc["irqt"] = "h_decode" /\ pc'["irqt"] # "h_decode") =>
          iqs269.lock # "irqt" /\ iqs269'.lock = iqs269.lock
    /\ pc'["pm"] # pc["pm"] =>
          iqs269.lock # "pm" /\ iqs269'.lock = iqs269.lock

----------------------------------------------------------------------------
\* C27: whenever the lock is free and ati_current is set, sys_reg and
\* hall_enable are those of the last iqs269_dev_init whose image write
\* succeeded (hist.last); every setter that returns success has cleared
\* ati_current, and ati_current is set only by iqs269_dev_init after its
\* image write has succeeded.
C27State ==
    (iqs269.lock = "free" /\ iqs269.ati_current) =>
        /\ iqs269.sys_reg = hist.last.image
        /\ iqs269.hall_enable = hist.last.hall

C27Step ==
    /\ \A t \in AttrThreads :
          (pc[t] = "s_write" /\ pc'[t] = "ret" /\ res'[t] = "OK") =>
             ~iqs269'.ati_current
    /\ (~iqs269.ati_current /\ iqs269'.ati_current) =>
          \E t \in Threads :
             /\ pc[t] = "di_mark"
             /\ iqs269.lock = t
             /\ writes[t].images = 1
             /\ hist.last = [image |-> iqs269.sys_reg, hall |-> iqs269.hall_enable]

C27_Staleness == [][C27Step /\ C27State']_vars

C27_Witness ==
    /\ iqs269.lock = "free"
    /\ iqs269.ati_current
    /\ iqs269.hall_enable
    /\ iqs269.sys_reg.ch_reg[0].rx_enable = IQS269_HALL_PAD_L
    /\ hist.last = [image |-> iqs269.sys_reg, hall |-> TRUE]
    /\ dev.image # iqs269.sys_reg


----------------------------------------------------------------------------
\* C28: a successful iqs269_ati_mode_set, iqs269_ati_base_set or
\* iqs269_ati_target_set on channel c changes nothing of iqs269_private but
\* bits 9:8 of engine_a, bits 7:6 of engine_b or bits 5:0 of engine_b of
\* channel c, and ati_current, which it leaves clear whether or not the
\* field already held the value; the same call on the result returns the
\* result.
AtiFieldBits(name) ==
    CASE name = "ati_mode" -> {8, 9}
      [] name = "ati_base" -> {6, 7}
      [] OTHER -> 0 .. 5

AtiFieldReg(name) == IF name = "ati_mode" THEN "engine_a" ELSE "engine_b"

AtiSetAgain(s, o) ==
    CASE o.name = "ati_mode" -> iqs269_ati_mode_set(s, o.ch, o.val)
      [] o.name = "ati_base" -> iqs269_ati_base_set(s, o.ch, o.val)
      [] OTHER -> iqs269_ati_target_set(s, o.ch, o.val)

AtiSetOk ==
    /\ SetterStep
    /\ op'["a1"].name \in {"ati_mode", "ati_base", "ati_target"}
    /\ res'["a1"] = "OK"

C28Frame(o) ==
    LET old == iqs269.sys_reg.ch_reg[o.ch][AtiFieldReg(o.name)]
        new == iqs269'.sys_reg.ch_reg[o.ch][AtiFieldReg(o.name)]
    IN  /\ o.ch \in Channels
        /\ new \in 0 .. 65535
        /\ \A b \in (0 .. 15) \ AtiFieldBits(o.name) :
              TestBit(new, b) = TestBit(old, b)
        /\ iqs269' = [SetCh(iqs269, o.ch, AtiFieldReg(o.name), new)
                        EXCEPT !.ati_current = FALSE]

C28Step ==
    AtiSetOk =>
        /\ C28Frame(op'["a1"])
        /\ AtiSetAgain(iqs269', op'["a1"]) = [err |-> "OK", s |-> iqs269']

C28_SetterFrame == [][C28Step]_vars

\* ati_mode 2 written over a field that already holds 2, on current state
C28_Witness ==
    /\ pc["a1"] = "ret" /\ res["a1"] = "OK"
    /\ op["a1"] = [name |-> "ati_mode", ch |-> 3, val |-> 2]
    /\ iqs269.sys_reg.ch_reg[3].engine_a = 23130
    /\ ~iqs269.ati_current


----------------------------------------------------------------------------
\* C29: under LiveSpec the handler, once started, returns, and every setter
\* and every ati_trigger_store that was entered returns, whatever the other
\* threads do: no thread stays for ever at guard(mutex), in disable_irq or
\* in wait_for_completion_timeout.
InFlight(t) == pc[t] \notin {"idle", "ret"}

C29_NoDeadlock ==
    \A t \in {"irqt", "a1", "a2"} : InFlight(t) ~> ~InFlight(t)

\* a recalibration waiting in disable_irq for a handler that waits for the
\* lock a setter holds
C29_Witness ==
    /\ Recalibrating("a1") /\ pc["a1"] = "x_sync"
    /\ pc["irqt"] = "di_lock" /\ ResetSeen(flags)
    /\ pc["a2"] = "s_write" /\ iqs269.lock = "a2"


----------------------------------------------------------------------------
\* C30: whenever a thread is about to issue the regmap_raw_read of
\* counts_show, the configuration is current, Hall mode is off and the gate
\* is released, as they were when counts_show tested them.
C30_ReadWhileReady ==
    \A t \in AttrThreads :
        pc[t] = "c_read" =>
            /\ iqs269.ati_current
            /\ ~iqs269.hall_enable
            /\ iqs269.ati_done


----------------------------------------------------------------------------
\* C31: whenever the handler is about to decode a snapshot, the hall_enable
\* it reads to interpret channels 6 and 7 equals the Hall UI enable bit last
\* written to the device.
C31_HallModeInStep ==
    pc["irqt"] = "h_decode" => iqs269.hall_enable = dev.hall_ui


----------------------------------------------------------------------------
(* iqs269_parse_prop as a function of the firmware node, the device and    *)
(* the registers the device holds: the node, the device and the registers  *)
(* are drawn by the initial state, and the one step is the call.           *)

\* both ends of each of the 256 steps of size d, and the values around max
StepEnds(d, max) ==
    {k * d + e : k \in 0 .. 255, e \in {0, d - 1}} \cup {max - 1, max, max + 1}

\* nodes that select channels for the sliders, with and without keycodes
SliderNodes(base) ==
    {[base EXCEPT !.keycodes = kc, !.channels = chs] :
        kc \in {<<>>, <<<<30, 48, 46, 32>>>>, <<<<0, 0, 0, 0>>>>,
                <<<<0, 0, 0, 0, 0, 0, 103, 0>>>>},
        chs \in {<<>>,
                 <<[ChanNode(0) EXCEPT !.slider0_select = TRUE]>>,
                 <<[ChanNode(1) EXCEPT !.slider1_select = TRUE]>>,
                 <<[ChanNode(0) EXCEPT !.slider0_select = TRUE],
                   [ChanNode(1) EXCEPT !.slider1_select = TRUE]>>}}

\* nodes with a touch-and-hold ceiling, and one channel asking for slider 1
TouchHoldNodes(base) ==
    {[base EXCEPT !.touch_hold_ms = <<v>>, !.channels = chs] :
        v \in StepEnds(256, IQS269_TOUCH_HOLD_MS_MAX),
        chs \in {<<>>, <<[ChanNode(1) EXCEPT !.slider1_select = TRUE]>>}}

\* nodes with one report rate or timeout
RateNodes(base) ==
    {[base EXCEPT !.rate_np_ms = <<v>>] :
        v \in StepEnds(1, IQS269_RATE_NP_MS_MAX)}
    \cup {[base EXCEPT !.rate_lp_ms = <<v>>] :
        v \in StepEnds(1, IQS269_RATE_LP_MS_MAX)}
    \cup {[base EXCEPT !.rate_ulp_ms = <<v>>] :
        v \in StepEnds(16, IQS269_RATE_ULP_MS_MAX)}
    \cup {[base EXCEPT !.timeout_pwr_ms = <<v>>] :
        v \in StepEnds(512, IQS269_TIMEOUT_PWR_MS_MAX)}
    \cup {[base EXCEPT !.timeout_lta_ms = <<v>>] :
        v \in StepEnds(512, IQS269_TIMEOUT_LTA_MS_MAX)}

\* nodes with one gesture timing, with and without "linux,keycodes"
GestureNodes(base) ==
    {[base EXCEPT !.keycodes = kc, !.timeout_tap_ms = <<v>>] :
        kc \in {<<>>, <<<<30, 48, 46, 32>>>>},
        v \in StepEnds(4, IQS269_TIMEOUT_TAP_MS_MAX \div 4)
              \cup StepEnds(16, IQS269_TIMEOUT_TAP_MS_MAX)}
    \cup {[base EXCEPT !.keycodes = kc, !.timeout_swipe_ms = <<v>>] :
        kc \in {<<>>, <<<<30, 48, 46, 32>>>>},
        v \in StepEnds(4, IQS269_TIMEOUT_SWIPE_MS_MAX \div 4)
              \cup StepEnds(16, IQS269_TIMEOUT_SWIPE_MS_MAX)}
    \cup {[base EXCEPT !.keycodes = kc, !.thresh_swipe = <<v>>] :
        kc \in {<<>>, <<<<30, 48, 46, 32>>>>},
        v \in StepEnds(1, IQS269_THRESH_SWIPE_MAX) \cup {1020, 4080}}

\* the nodes of a parse: base with one more property, or with the slider
\* channels
ParseNodes(base) ==
    {base} \cup SliderNodes(base) \cup TouchHoldNodes(base)
    \cup RateNodes(base) \cup GestureNodes(base)

\* the probe has allocated the private data and read the version; op holds
\* the firmware node of the device, one of nodes.  The device has one of
\* three OTP options and one of two firmware numbers; the registers read at
\* line 811 are all zero, or hold a pattern in every field that a property
\* of the node may replace.
ParseInitOf(nodes) ==
    /\ iqs269 = ZeroPrivate
    /\ op \in {[t \in Threads |->
                  IF t = "probe" THEN [name |-> "parse", ch |-> 0, val |-> node]
                  ELSE NoOp] : node \in nodes}
    /\ dev \in {[otp |-> otp, fw_num |-> fw, hall_ui |-> FALSE,
                 image |-> im, general |-> im.general, written |-> FALSE] :
                  otp \in {IQS269_OTP_OPTION_DEFAULT, IQS269_OTP_OPTION_HOLD,
                           IQS269_OTP_OPTION_TWS},
                  fw \in {IQS269_VER_INFO_FW_NUM_2, IQS269_VER_INFO_FW_NUM_3},
                  im \in {ZeroSysReg,
                          [ZeroSysReg EXCEPT
                             !.general = 42405, !.rate_np = 170,
                             !.rate_lp = 85, !.rate_ulp = 170,
                             !.timeout_pwr = 85, !.timeout_lta = 170,
                             !.timeout_tap = 85, !.timeout_swipe = 170,
                             !.thresh_swipe = 85,
                             !.slider_select = [n \in 0 .. 1 |-> 255]]}}
    /\ irq = [requested |-> FALSE, depth |-> 0]
    /\ input = {}
    /\ pc = [t \in Threads |-> IF t = "probe" THEN "p_start" ELSE "idle"]
    /\ res = [t \in Threads |-> "none"]
    /\ flags = NoFlags
    /\ events = <<>>
    /\ writes = [t \in Threads |-> NoWrites]
    /\ hist = [ops |-> 0, max |-> MaxOps, arm_clean |-> FALSE, prev |-> "other",
               last |-> [image |-> ZeroSysReg, hall |-> FALSE]]
    /\ suspended = FALSE

ParseInit == ParseInitOf(ParseNodes(DevNode))

\* lines 1817-1850 with the node of op: allocation, version read,
\* iqs269_parse_prop
ParseProp ==
    /\ pc["probe"] = "p_start"
    /\ op["probe"].name = "parse"
    /\ \E readok \in BOOLEAN :
         LET s0 == [ZeroPrivate EXCEPT !.otp_option = dev.otp,
                                       !.fw_num = dev.fw_num]
             r  == iqs269_parse_prop(s0, op["probe"].val, dev.image, readok)
         IN  /\ iqs269' = r.s
             /\ res' = [res EXCEPT !["probe"] = r.err]
             /\ Goto("probe", AfterParse(r.err))
    /\ UNCHANGED <<dev, irq, input, op, flags, events, writes, hist, suspended>>

SpecParse == ParseInit /\ [][ParseProp]_vars


----------------------------------------------------------------------------
\* C32: with the mode of a slider being none when its selection byte is
\* zero (or, for slider 1, when the OTP option has touch-and-hold), keys
\* when one of its four gesture codes is not KEY_RESERVED and raw otherwise,
\* every image that iqs269_parse_prop builds with a raw slider has
\* IQS269_SYS_SETTINGS_EVENT_MODE_LP set in the general word.

\* iqs269_parse_prop has returned 0
Parsed == pc["probe"] = "di_lock" /\ res["probe"] = "OK"

SliderMode(s, i) ==
    IF i = 1 /\ s.otp_option \in {IQS269_OTP_OPTION_HOLD, IQS269_OTP_OPTION_TWS}
    THEN "none"
    ELSE IF s.sys_reg.slider_select[i] = 0 THEN "none"
    ELSE IF \E g \in 0 .. IQS269_NUM_GESTURES - 1 :
               s.sl_code[i][g] # KEY_RESERVED
    THEN "keys"
    ELSE "raw"

C32_RawStreams ==
    Parsed =>
        /\ \A i \in 0 .. 1 :
              iqs269_slider_type(iqs269, i) =
                 (CASE SliderMode(iqs269, i) = "none" -> IQS269_SLIDER_NONE
                    [] SliderMode(iqs269, i) = "keys" -> IQS269_SLIDER_KEY
                    [] OTHER -> IQS269_SLIDER_RAW)
        /\ (\E i \in 0 .. 1 : SliderMode(iqs269, i) = "raw") =>
              TestBit(iqs269.sys_reg.general, 4)

\* slider 0 mapped to keys, slider 1 raw, on registers that had the bit clear
C32_Witness ==
    /\ Parsed
    /\ dev.image = ZeroSysReg
    /\ SliderMode(iqs269, 0) = "keys"
    /\ SliderMode(iqs269, 1) = "raw"
    /\ TestBit(iqs269.sys_reg.general, 4)


----------------------------------------------------------------------------
\* C34: a rate or timeout of the node that is at most its maximum (255 ms
\* for the normal-power and low-power rates, 4080 ms for the
\* ultra-low-power rate, 130560 ms for the two timeouts) is accepted and
\* stored as floor(ms / step), step being 1, 1, 16, 512 and 512, which is
\* in 0 .. 255; a larger one makes iqs269_parse_prop return -EINVAL with
\* the field as it was read from the device.

\* iqs269_parse_prop has returned, the register read having succeeded
ParseReturned == pc["probe"] # "p_start" /\ res["probe"] # "EIO"

ParsedNode == op["probe"].val

\* property prop, if present, was encoded into field with the step and max
ScaledOk(prop, field, step, max) ==
    Has(prop) =>
        IF Val(prop) <= max
        THEN /\ res["probe"] = "OK"
             /\ \E q \in 0 .. 255 :
                   /\ q * step <= Val(prop)
                   /\ Val(prop) < (q + 1) * step
                   /\ iqs269.sys_reg[field] = q
        ELSE /\ res["probe"] = "EINVAL"
             /\ iqs269.sys_reg[field] = dev.image[field]

C34_ScaledRates ==
    ParseReturned =>
        /\ ScaledOk(ParsedNode.rate_np_ms, "rate_np", 1, 255)
        /\ ScaledOk(ParsedNode.rate_lp_ms, "rate_lp", 1, 255)
        /\ ScaledOk(ParsedNode.rate_ulp_ms, "rate_ulp", 16, 4080)
        /\ ScaledOk(ParsedNode.timeout_pwr_ms, "timeout_pwr", 512, 130560)
        /\ ScaledOk(ParsedNode.timeout_lta_ms, "timeout_lta", 512, 130560)

\* the largest ultra-low-power rate, over a register that held 170
C34_Witness ==
    /\ ParseReturned
    /\ ParsedNode = [DevNode EXCEPT !.rate_ulp_ms = <<4080>>]
    /\ dev.image.rate_ulp = 170
    /\ iqs269.sys_reg.rate_ulp = 255


----------------------------------------------------------------------------
\* C35: with "linux,keycodes" present, the tap and swipe timeouts are
\* accepted up to 1020 ms and stored in steps of 4 ms when the firmware
\* number is below IQS269_VER_INFO_FW_NUM_3, and accepted up to 4080 ms and
\* stored in steps of 16 ms otherwise; the swipe threshold is accepted up to
\* 255 and stored as it is on every revision.  Every accepted value is
\* stored as a value in 0 .. 255, a larger one is refused with -EINVAL, and
\* without "linux,keycodes" the three properties are not read.
OldSilicon == dev.fw_num < IQS269_VER_INFO_FW_NUM_3

\* the node that was parsed gives one of the three gesture timings
GestureNode ==
    \/ Has(ParsedNode.timeout_tap_ms)
    \/ Has(ParsedNode.timeout_swipe_ms)
    \/ Has(ParsedNode.thresh_swipe)

GestureOk(prop, field, step, max) ==
    IF Has(ParsedNode.keycodes)
    THEN ScaledOk(prop, field, step, max)
    ELSE res["probe"] = "OK" /\ iqs269.sys_reg[field] = dev.image[field]

C35_GestureSteps ==
    (ParseReturned /\ GestureNode) =>
        /\ GestureOk(ParsedNode.timeout_tap_ms, "timeout_tap",
                     IF OldSilicon THEN 4 ELSE 16,
                     IF OldSilicon THEN 1020 ELSE 4080)
        /\ GestureOk(ParsedNode.timeout_swipe_ms, "timeout_swipe",
                     IF OldSilicon THEN 4 ELSE 16,
                     IF OldSilicon THEN 1020 ELSE 4080)
        /\ GestureOk(ParsedNode.thresh_swipe, "thresh_swipe", 1, 255)

\* the largest tap timeout of old silicon
C35_Witness ==
    /\ ParseReturned
    /\ OldSilicon
    /\ ParsedNode = [DevNode EXCEPT !.keycodes = <<<<30, 48, 46, 32>>>>,
                                    !.timeout_tap_ms = <<1020>>]
    /\ res["probe"] = "OK"
    /\ dev.image.timeout_tap = 85
    /\ iqs269.sys_reg.timeout_tap = 255

\* C35 as stated: each of the three values is stored in steps that are
\* finer below IQS269_VER_INFO_FW_NUM_3 than from it on, so that from it on
\* the step is at least 2.
CoarseStep(prop, field) ==
    (Has(prop) /\ res["probe"] = "OK") =>
        \E step \in 2 .. 16 : iqs269.sys_reg[field] = Val(prop) \div step

C35_RevisionSteps ==
    (ParseReturned /\ GestureNode
       /\ Has(ParsedNode.keycodes) /\ ~OldSilicon) =>
        /\ CoarseStep(ParsedNode.timeout_tap_ms, "timeout_tap")
        /\ CoarseStep(ParsedNode.timeout_swipe_ms, "timeout_swipe")
        /\ CoarseStep(ParsedNode.thresh_swipe, "thresh_swipe")


----------------------------------------------------------------------------
(* The probe of a device whose node gives a touch-and-hold ceiling or      *)
(* none, followed by the handler and by ati_trigger_store of one thread:   *)
(* the three callers of iqs269_dev_init.                                   *)

\* the registers read at probe hold 255 in the slider-1 selection byte; the
\* ceiling is absent, the smallest, the largest, or just out of range
HoldInit ==
    /\ ParseInitOf(
          {DevNode} \cup
          {[DevNode EXCEPT !.touch_hold_ms = <<v>>] :
              v \in {IQS269_TOUCH_HOLD_MS_MIN - 1, IQS269_TOUCH_HOLD_MS_MIN,
                     IQS269_TOUCH_HOLD_MS_MAX, IQS269_TOUCH_HOLD_MS_MAX + 1}})
    /\ dev.image # ZeroSysReg

HoldNext ==
    \/ ParseProp \/ ProbeInputInit \/ ProbeRequestIrq \/ ProbeWaitDone
    \/ ProbeWaitTimeout \/ ProbeRegisterKeypad \/ ProbeUnwind
    \/ Handler
    \/ \E t \in {"probe", "irqt", "a1"} : DevInit(t)
    \/ AtiTriggerStore("a1") \/ TriggerReinit("a1")
    \/ TriggerWaitDone("a1") \/ TriggerWaitTimeout("a1")
    \/ IrqDisable("a1") \/ IrqSync("a1") \/ IrqEnable("a1")

SpecHold == HoldInit /\ [][HoldNext]_vars

----------------------------------------------------------------------------
\* C33: on a device whose OTP option has touch-and-hold, every image that
\* iqs269_dev_init writes, called by the probe, by the handler after a
\* reset or by ati_trigger_store, has 0x14 in the slider-1 selection byte
\* when the node gives no ceiling and the firmware number is below
\* IQS269_VER_INFO_FW_NUM_3, and floor(ceiling / 256) when the node gives a
\* ceiling, which then is in 256 .. 65280; with a ceiling outside that
\* range iqs269_parse_prop returns -EINVAL and no image is ever written.
HoldOption == BitAnd(dev.otp, IQS269_OTP_OPTION_HOLD) # 0

Ceiling == ParsedNode.touch_hold_ms

\* thread t writes the image in this step
ImageWritten(t) == pc[t] = "di_image" /\ pc'[t] = "di_mark"

C33Step ==
    \A t \in {"probe", "irqt", "a1"} :
        (ImageWritten(t) /\ HoldOption) =>
            /\ dev'.image.slider_select[1] = iqs269.sys_reg.slider_select[1]
            /\ (~Has(Ceiling) /\ OldSilicon) =>
                  dev'.image.slider_select[1] = 20
            /\ Has(Ceiling) =>
                  /\ Val(Ceiling) \in 256 .. 65280
                  /\ \E q \in 1 .. 255 :
                        /\ q * 256 <= Val(Ceiling)
                        /\ Val(Ceiling) < (q + 1) * 256
                        /\ dev'.image.slider_select[1] = q

C33State ==
    (ParseReturned /\ HoldOption /\ Has(Ceiling)
       /\ Val(Ceiling) \notin 256 .. 65280) =>
        /\ res["probe"] = "EINVAL"
        /\ ~dev.written

C33_HoldDefault == [][C33Step /\ C33State']_vars

\* the image of a reset recovery on early TWS silicon, after a
\* recalibration: the default is in the byte again
C33_Witness ==
    /\ pc["irqt"] = "di_mark" /\ ResetSeen(flags)
    /\ writes["irqt"].images = 1
    /\ writes["a1"].images = 1
    /\ dev.otp = IQS269_OTP_OPTION_TWS /\ OldSilicon
    /\ ~Has(Ceiling)
    /\ dev.image.slider_select[1] = 20


----------------------------------------------------------------------------
\* C36: the disable depth of the interrupt is at every moment the number of
\* threads that are between their disable_irq and their enable_irq, which
\* an attribute or PM callback is never when it has returned, whatever it
\* returns: once every callback has returned the interrupt is enabled.
BetweenDisableAndEnable ==
    {"x_sync", "c_read", "hb_read", "t_reinit", "su_write", "re_write",
     "x_enable"} \cup DevInitPcs

IrqCallers == AttrThreads \cup {"pm"}

C36_IrqBalance ==
    /\ irq.depth =
          Cardinality({t \in IrqCallers : pc[t] \in BetweenDisableAndEnable})
    /\ (\A t \in IrqCallers : pc[t] \in {"idle", "ret"}) => irq.depth = 0

\* a recalibration whose rewrite failed and a count read that failed have
\* both returned
C36_Witness ==
    /\ pc["a1"] = "ret" /\ pc["a2"] = "ret"
    /\ op["a1"].name = "ati_trigger" /\ res["a1"] = "EIO"
    /\ op["a2"].name = "counts" /\ res["a2"] = "EIO"
    /\ irq.depth = 0

====
